---------------------------- MODULE Spec2Model ----------------------------
(***************************************************************************)
(* RaidAssist: the OAuth2 PKCE token lifecycle (src/api/oauth.py) and the  *)
(* legacy token loader of the fetch layer (src/api/bungie.py), as a state  *)
(* machine.  One call of get_access_token / load_token runs at a time; its *)
(* blocking steps (token-endpoint requests, the callback wait) are separate*)
(* actions, and the wall clock may advance between any two steps.          *)
(*                                                                         *)
(* JSON objects are functions from key names to values, so that            *)
(* `"k" in d` is  "k" \in DOMAIN d .  An optional value (a file that may   *)
(* not exist, Python's None) is a sequence of length 0 or 1.               *)
(* A 200 answer of the token endpoint carries access_token, refresh_token  *)
(* and expires_in, as the endpoint documents.  The clock counts seconds    *)
(* from 1 and every expires_in is at least the 10 s skew, so that no       *)
(* expires_at is 0 (epoch times are far from 0).                           *)
(***************************************************************************)
EXTENDS Integers, Sequences, FiniteSets, TLC

\* ---- bounds of the model
MaxTime == 4
MaxCalls == 2

\* ---- program constants
Skew == 10
SaveTokenExpiresIn == 3600

ApiKeyPlaceholder == "your_bungie_api_key_here"
ClientIdPlaceholder == "your_client_id_here"
DefaultTestToken == "test_token"

\* ---- input domains
AccessTokens == {"A1", "A2"}
RefreshTokens == {"R1"}
ExpiresIns == {10, 11, 13}
EnvApiKeys == {"", "key"}
EnvClientIds == {"", "cid"}
EnvClientSecrets == {"", "sec"}
EnvTestModes == {"true", "false"}
EnvTestTokens == {"", "tt"}

None == <<>>
Some(x) == <<x>>
NoFile == <<>>

HasKey(d, k) == k \in DOMAIN d
Put(d, k, v) == [x \in (DOMAIN d) \cup {k} |-> IF x = k THEN v ELSE d[x]]

VARIABLES
    now,            \* time.time(), in seconds
    env,            \* os.environ, fixed for the run of the process
    sessionFile,    \* ~/.raidassist/session.json : NoFile or Some(session)
    op,             \* the operation in progress
    pc,             \* its position
    session,        \* get_access_token's local `session`
    result,         \* what the operation returned or raised
    calls,          \* operations completed
    fileAtCall,     \* history: the session file when the operation was entered
    tCheck,         \* history: the clock read by the first expiry check
    tRecheck,       \* history: the clock read by the check after a refresh
    tokenPosts,     \* history: requests sent to the token endpoint in this call
    browserOpens,   \* history: webbrowser.open calls in this call
    listenerStarts, \* history: callback listeners started in this call
    sessionWrites,  \* history: writes/removals of the session file in this call
    sessionReads,   \* history: reads of the session file in this call
    refreshOutcome, \* history: how the refresh request of this call ended
    lastResp        \* history: the last 200 body of the token endpoint and when it was handled

\* the callback receiver of oauth.py (OAuthHandler, wait_for_code)
VARIABLES
    clock,          \* time.time(), in tenths of a second
    handlerCode,    \* OAuthHandler._code : None or Some(code)
    handlerError,   \* OAuthHandler._error : None or Some(error)
    listener,       \* wait_for_code's HTTPServer: "none", "serving", "stopped" (shut down, socket open)
    wpc,            \* position of the thread inside wait_for_code
    wTimeout,       \* its `timeout` argument
    wStart,         \* its `start_time`
    wOutcomes,      \* history: the ways the call has ended (returned a code, raised ...)
    wValue,         \* history: the value returned, or the error raised
    wQuiet,         \* history: no code and no error was recorded before or during the call
    recorded,       \* history: every code and error do_GET has recorded
    waits,          \* wait_for_code calls completed
    callbacks       \* requests the listener has handled

\* the callback receiver of auth_server.py (Flask app, get_auth_code)
VARIABLES
    received_code,  \* the module-level dict
    flaskServing,   \* an app.run thread holds port 7777 and serves /callback
    pendingStarts,  \* run_auth_server threads started and not yet at app.run
    gpc,            \* position of each flow inside get_auth_code
    gWaited,        \* its `waited`
    gTimeout,       \* its `timeout` argument
    gOutcome,       \* history: how each flow's call ended
    gCalls,         \* get_auth_code calls completed
    gCallbacks      \* requests the Flask app has handled

\* bungie.fetch_profile
VARIABLES
    lastRequestTime, \* LAST_REQUEST_TIME
    profileCache,    \* profile cache file: NoFile or Some(entry)
    fpc,             \* position inside fetch_profile
    retryAttempts,   \* its `retry_attempts` argument
    attempt,         \* the loop variable
    token,           \* its local `token`
    fResult,         \* what the call returned
    attemptLog,      \* history: per attempt, the response and the backoff sleep
    gateSleeps,      \* history: sleeps of _rate_limit in this call
    authStarts,      \* history: interactive authorizations started in this call
    tokenFailed,     \* history: load_token returned nothing in this call
    cacheWrites,     \* history: writes of the profile cache in this call
    cacheAtCall      \* history: the profile cache when fetch_profile was called

\* the threads that pass through bungie._rate_limit, and the requests they send
VARIABLES
    tpc,            \* position of each thread: in _rate_limit, at a request, or idle
    tSite,          \* the call site the thread is in
    tNow,           \* _rate_limit's `current_time`
    tWake,          \* when its time.sleep ends
    tSlept,         \* its `sleep_time`, 0 when it does not sleep
    tSeen,          \* history: the gate passes completed when the thread entered
    tGated,         \* history: the thread has passed the gate in this call
    gateLog,        \* history: every value stored in LAST_REQUEST_TIME
    requestLog,     \* history: the requests sent to the external API, by call site
    gateCalls       \* calls started

\* the operations of bungie.py the user interface calls beside fetch_profile
VARIABLES
    bop,            \* the operation called: "none" or its name
    bResult,        \* what it returned, or the exception that left it
    lastStore,      \* history: the entry the last complete _cache_profile wrote
    loadedAt        \* history: time.time() as the last load_cached_profile read it

\* utils/logging_manager.py: the context stack of the global logger_manager,
\* shared by every thread that opens a log_context block
VARIABLES
    context_stack,  \* logger_manager.context_stack
    lcBlocks,       \* per thread, its open `with log_context(c)` blocks, innermost
                    \* last: c and (history) the stack when the block was entered
    lcExited,       \* history: per thread, the block it left last
    lcEntered       \* blocks entered so far

\* utils/error_handler.py: calls of safe_execute
VARIABLES
    sePc,           \* "idle", or "done" when a call has ended
    seCall,         \* the arguments of the call: func, context, default_return
    seResult,       \* what the call handed to its caller
    error_history,  \* len(error_handler.error_history)
    seCalls         \* calls made so far

\* api/oauth.py: the PKCE pair of authorize()
VARIABLES
    apc,            \* position inside authorize: "idle", "waiting", "exchange", "done"
    code_verifier,  \* its local code_verifier, None outside a call
    code_challenge, \* its local code_challenge
    aCode,          \* its local `code`
    aResult,        \* what the call returned or raised
    aDrawn,         \* history: what secrets.token_bytes(32) returned in this call
    aUrl,           \* history: the auth_params of the URL this call opened
    aPosted,        \* history: the token_data this call posted
    digests,        \* hashlib.sha256 on the inputs hashed so far
    challenges,     \* history: per verifier, the outputs of generate_code_challenge
    aCalls,         \* authorize calls made
    hashCalls       \* direct calls of generate_code_challenge made

\* api/oauth.py: save_session and load_session on the session file's text
VARIABLES
    sessionText,    \* the text of SESSION_PATH: its top-level JSON values, or NoFile
    ssLoaded,       \* what the last load_session returned, "unloaded" after a save
    ssSaved,        \* history: the argument of the last save_session
    ssSaves,        \* history: save_session calls made
    ssOps           \* calls made

histVars == <<fileAtCall, tCheck, tRecheck, tokenPosts, browserOpens, listenerStarts,
              sessionWrites, sessionReads, refreshOutcome, lastResp>>

callVars == <<now, op, pc, session, result, calls, histVars>>

lifecycleVars == <<env, sessionFile, callVars>>

receiverVars == <<handlerCode, handlerError, listener, wpc, wTimeout, wStart, wOutcomes,
                  wValue, wQuiet, recorded, waits, callbacks>>

flaskVars == <<received_code, flaskServing, pendingStarts, gpc, gWaited, gTimeout,
               gOutcome, gCalls, gCallbacks>>

fetchVars == <<lastRequestTime, profileCache, fpc, retryAttempts, attempt, token, fResult,
               attemptLog, gateSleeps, authStarts, tokenFailed, cacheWrites,
               cacheAtCall>>

gateVars == <<tpc, tSite, tNow, tWake, tSlept, tSeen, tGated, gateLog, requestLog, gateCalls>>

boundaryVars == <<bop, bResult, lastStore, loadedAt>>

logVars == <<context_stack, lcBlocks, lcExited, lcEntered>>

safeVars == <<sePc, seCall, seResult, error_history, seCalls>>

pkceVars == <<apc, code_verifier, code_challenge, aCode, aResult, aDrawn, aUrl, aPosted,
              digests, challenges, aCalls, hashCalls>>

storeVars == <<sessionText, ssLoaded, ssSaved, ssSaves, ssOps>>

utilityVars == <<logVars, safeVars, pkceVars, storeVars>>

vars == <<lifecycleVars, clock, receiverVars, flaskVars, fetchVars, gateVars, boundaryVars,
          utilityVars>>

Pending == [kind |-> "pending", value |-> ""]
Returned(tok) == [kind |-> "token", value |-> tok]
ReturnedNone(why) == [kind |-> "none", value |-> why]
Raised(cause) == [kind |-> "raise", value |-> cause]

NoResp == [access_token |-> "", refresh_token |-> "", expires_in |-> 0, at |-> 0]

\* ---- module-level configuration of oauth.py
OAUTH_BUNGIE_API_KEY == IF env.BUNGIE_API_KEY # "" THEN env.BUNGIE_API_KEY ELSE ApiKeyPlaceholder
OAUTH_BUNGIE_CLIENT_ID == IF env.BUNGIE_CLIENT_ID # "" THEN env.BUNGIE_CLIENT_ID ELSE ClientIdPlaceholder

TestModeOn == env.RAIDASSIST_TEST_MODE = "true"

validate_oauth_config_api_key_only ==
    IF TestModeOn THEN [valid |-> TRUE, msg |-> "test mode"]
    ELSE IF OAUTH_BUNGIE_API_KEY = ApiKeyPlaceholder THEN [valid |-> FALSE, msg |-> "missing api key"]
    ELSE [valid |-> TRUE, msg |-> ""]

validate_oauth_config ==
    IF TestModeOn THEN [valid |-> TRUE, msg |-> "test mode"]
    ELSE IF OAUTH_BUNGIE_API_KEY = ApiKeyPlaceholder THEN [valid |-> FALSE, msg |-> "missing api key"]
    ELSE IF OAUTH_BUNGIE_CLIENT_ID = ClientIdPlaceholder THEN [valid |-> FALSE, msg |-> "missing client id"]
    ELSE [valid |-> TRUE, msg |-> ""]

GetTestTokenIgnoringEnv == DefaultTestToken

GetTestToken == IF env.TEST_TOKEN # "" THEN env.TEST_TOKEN ELSE DefaultTestToken

\* ---- session management of oauth.py
load_session == sessionFile

is_token_expired_reversed(s, t) ==
    IF s = None \/ ~HasKey(s[1], "expires_at") THEN TRUE
    ELSE t <= s[1].expires_at

is_token_expired(s, t) ==
    IF s = None \/ ~HasKey(s[1], "expires_at") THEN TRUE
    ELSE t >= s[1].expires_at

ExpiresAtNoSkew(t, expires_in) == t + expires_in

ExpiresAt(t, expires_in) == t + expires_in - Skew

RefreshedSession(s, body, t) ==
    Put(Put(Put(s, "access_token", body.access_token),
            "refresh_token", body.refresh_token),
        "expires_at", ExpiresAt(t, body.expires_in))

TokenResponseWithoutExpiry(body, t) ==
    [access_token |-> body.access_token, refresh_token |-> body.refresh_token,
     expires_in |-> body.expires_in]

TokenResponse(body, t) ==
    [access_token |-> body.access_token, refresh_token |-> body.refresh_token,
     expires_in |-> body.expires_in, expires_at |-> ExpiresAt(t, body.expires_in)]

Bodies == [access_token : AccessTokens, refresh_token : RefreshTokens, expires_in : ExpiresIns]

Stamp(body, t) == [access_token |-> body.access_token, refresh_token |-> body.refresh_token,
                   expires_in |-> body.expires_in, at |-> t]

\* ---- the states the session file can be in when the process starts
InitSessions ==
    LET base == {[access_token |-> a] : a \in {"A0"}}
        withR == base \cup {Put(s, "refresh_token", "R0") : s \in base}
    IN  withR \cup {Put(s, "expires_at", e) : s \in withR, e \in 1..MaxTime}

Envs == [BUNGIE_API_KEY : EnvApiKeys, BUNGIE_CLIENT_ID : EnvClientIds,
         RAIDASSIST_TEST_MODE : EnvTestModes, TEST_TOKEN : EnvTestTokens,
         BUNGIE_CLIENT_SECRET : EnvClientSecrets]

\* the two threads of the application that can ask for a token: the window's and
\* the background refresh thread's (ui/interface.py, DataRefreshThread)
Flows == {"ui", "refresh"}

EmptyDict == <<>>
NoOutcome == [kind |-> "none", value |-> ""]
NoResult == [kind |-> "pending", why |-> "", payload |-> None]

\* ---- each part of the program at rest, as it is when the process starts
CallIdle ==
    /\ now = 1
    /\ op = "none"
    /\ pc = "idle"
    /\ session = None
    /\ result = Pending
    /\ calls = 0
    /\ fileAtCall = NoFile
    /\ tCheck = 0
    /\ tRecheck = 0
    /\ tokenPosts = 0
    /\ browserOpens = 0
    /\ listenerStarts = 0
    /\ sessionWrites = 0
    /\ sessionReads = 0
    /\ refreshOutcome = "none"
    /\ lastResp = NoResp

ReceiverIdle ==
    /\ handlerCode = None
    /\ handlerError = None
    /\ listener = "none"
    /\ wpc = "idle"
    /\ wTimeout = 0
    /\ wStart = 0
    /\ wOutcomes = {}
    /\ wValue = None
    /\ wQuiet = TRUE
    /\ recorded = {}
    /\ waits = 0
    /\ callbacks = 0

FlaskIdle ==
    /\ received_code = EmptyDict
    /\ flaskServing = FALSE
    /\ pendingStarts = 0
    /\ gpc = [f \in Flows |-> "idle"]
    /\ gWaited = [f \in Flows |-> 0]
    /\ gTimeout = [f \in Flows |-> 0]
    /\ gOutcome = [f \in Flows |-> NoOutcome]
    /\ gCalls = 0
    /\ gCallbacks = 0

FetchCallIdle ==
    /\ fpc = "idle"
    /\ retryAttempts = 0
    /\ attempt = 0
    /\ token = None
    /\ fResult = NoResult
    /\ attemptLog = <<>>
    /\ gateSleeps = 0
    /\ authStarts = 0
    /\ tokenFailed = FALSE
    /\ cacheWrites = 0
    /\ cacheAtCall = NoFile

FetchIdle ==
    /\ lastRequestTime = 0
    /\ profileCache = NoFile
    /\ FetchCallIdle

GateIdle ==
    /\ tpc = [th \in Flows |-> "idle"]
    /\ tSite = [th \in Flows |-> "none"]
    /\ tNow = [th \in Flows |-> 0]
    /\ tWake = [th \in Flows |-> 0]
    /\ tSlept = [th \in Flows |-> 0]
    /\ tSeen = [th \in Flows |-> 0]
    /\ tGated = [th \in Flows |-> FALSE]
    /\ gateLog = <<>>
    /\ requestLog = {}
    /\ gateCalls = 0

\* what an operation hands to its caller
Unreturned == [kind |-> "pending", value |-> "", payload |-> None]

BoundaryIdle ==
    /\ bop = "none"
    /\ bResult = Unreturned
    /\ lastStore = None
    /\ loadedAt = 0

LogIdle ==
    /\ context_stack = <<>>
    /\ lcBlocks = [th \in Flows |-> <<>>]
    /\ lcExited = [th \in Flows |-> None]
    /\ lcEntered = 0

\* a callable: what calling it does, and whether it has a __name__ (a function,
\* a lambda and a bound method have one; a functools.partial object and an
\* instance of a class with __call__ have none)
Callable(outcome, value, named) == [value |-> value, outcome |-> outcome, named |-> named]

NoCall == [func |-> Callable("returns", "", TRUE), context |-> None, default_return |-> ""]

SafeIdle ==
    /\ sePc = "idle"
    /\ seCall = NoCall
    /\ seResult = NoOutcome
    /\ error_history = 0
    /\ seCalls = 0

PkceIdle ==
    /\ apc = "idle"
    /\ code_verifier = None
    /\ code_challenge = None
    /\ aCode = None
    /\ aResult = NoOutcome
    /\ aDrawn = None
    /\ aUrl = None
    /\ aPosted = None
    /\ digests = EmptyDict
    /\ challenges = EmptyDict
    /\ aCalls = 0
    /\ hashCalls = 0

NotLoaded == [kind |-> "unloaded", loaded |-> EmptyDict]

StoreCallIdle ==
    /\ ssLoaded = NotLoaded
    /\ ssSaved = None
    /\ ssSaves = 0
    /\ ssOps = 0

StoreIdle == sessionText = NoFile /\ StoreCallIdle

UtilityIdle == LogIdle /\ SafeIdle /\ PkceIdle /\ StoreIdle

Init ==
    /\ env \in Envs
    /\ sessionFile \in {NoFile} \cup {Some(s) : s \in InitSessions}
    /\ CallIdle
    /\ clock = 0
    /\ ReceiverIdle
    /\ FlaskIdle
    /\ FetchIdle
    /\ GateIdle
    /\ BoundaryIdle
    /\ UtilityIdle

\* what every operation resets when it is entered
Enter(name) ==
    /\ pc = "idle"
    /\ calls < MaxCalls
    /\ op' = name
    /\ fileAtCall' = sessionFile
    /\ tCheck' = now
    /\ tRecheck' = now
    /\ sessionWrites' = 0
    /\ refreshOutcome' = "none"
    /\ lastResp' = NoResp

\* the clock advances
Tick ==
    /\ now < MaxTime
    /\ now' = now + 1
    /\ UNCHANGED <<env, sessionFile, op, pc, session, result, calls, histVars>>

\* ---- oauth.get_access_token, up to its first blocking request
GetAccessToken ==
    /\ Enter("get_access_token")
    /\ browserOpens' = 0
    /\ listenerStarts' = 0
    /\ IF TestModeOn
       THEN /\ result' = Returned(GetTestToken)
            /\ pc' = "done"
            /\ session' = None
            /\ sessionReads' = 0
            /\ tokenPosts' = 0
       ELSE IF ~validate_oauth_config.valid
       THEN /\ result' = Raised("config")
            /\ pc' = "done"
            /\ session' = None
            /\ sessionReads' = 0
            /\ tokenPosts' = 0
       ELSE /\ session' = load_session
            /\ sessionReads' = 1
            /\ IF load_session # None /\ ~is_token_expired(load_session, now)
               THEN /\ result' = Returned(load_session[1].access_token)
                    /\ pc' = "done"
                    /\ tokenPosts' = 0
               ELSE IF load_session # None /\ HasKey(load_session[1], "refresh_token")
               THEN /\ result' = Pending
                    /\ pc' = "refreshing"
                    /\ tokenPosts' = 1
               ELSE /\ result' = Pending
                    /\ pc' = "authorizing"
                    /\ tokenPosts' = 0
    /\ UNCHANGED <<now, env, sessionFile, calls>>

\* ---- oauth.refresh_token: the answers of the token endpoint
RefreshOk ==
    /\ op = "get_access_token" /\ pc = "refreshing"
    /\ \E body \in Bodies :
        /\ session' = Some(RefreshedSession(session[1], body, now))
        /\ sessionFile' = Some(RefreshedSession(session[1], body, now))
        /\ lastResp' = Stamp(body, now)
    /\ sessionWrites' = sessionWrites + 1
    /\ refreshOutcome' = "ok"
    /\ pc' = "refreshed"
    /\ UNCHANGED <<now, env, op, result, calls, fileAtCall, tCheck, tRecheck,
                   tokenPosts, browserOpens, listenerStarts, sessionReads>>

RefreshHttpErrorGivesUp ==
    /\ op = "get_access_token" /\ pc = "refreshing"
    /\ refreshOutcome' = "http_error"
    /\ result' = Raised("refresh_failed")
    /\ pc' = "done"
    /\ UNCHANGED <<now, env, sessionFile, op, session, calls, fileAtCall,
                   tCheck, tRecheck, tokenPosts, browserOpens, listenerStarts,
                   sessionWrites, sessionReads, lastResp>>

RefreshHttpError ==
    /\ op = "get_access_token" /\ pc = "refreshing"
    /\ refreshOutcome' = "http_error"
    /\ pc' = "authorizing"
    /\ UNCHANGED <<now, env, sessionFile, op, session, result, calls, fileAtCall,
                   tCheck, tRecheck, tokenPosts, browserOpens, listenerStarts,
                   sessionWrites, sessionReads, lastResp>>

RefreshNetworkError ==
    /\ op = "get_access_token" /\ pc = "refreshing"
    /\ refreshOutcome' = "network_error"
    /\ pc' = "authorizing"
    /\ UNCHANGED <<now, env, sessionFile, op, session, result, calls, fileAtCall,
                   tCheck, tRecheck, tokenPosts, browserOpens, listenerStarts,
                   sessionWrites, sessionReads, lastResp>>

\* get_access_token, after refresh_token returned a session
CheckRefreshed ==
    /\ op = "get_access_token" /\ pc = "refreshed"
    /\ tRecheck' = now
    /\ IF ~is_token_expired(session, now)
       THEN /\ result' = Returned(session[1].access_token)
            /\ pc' = "done"
       ELSE /\ result' = Pending
            /\ pc' = "authorizing"
    /\ UNCHANGED <<now, env, sessionFile, op, session, calls, fileAtCall, tCheck,
                   tokenPosts, browserOpens, listenerStarts, sessionWrites,
                   sessionReads, refreshOutcome, lastResp>>

\* ---- oauth.authorize: the browser is opened (a failure to open it is logged
\* and ignored) and wait_for_code binds the callback port and starts the listener
AuthorizeStart ==
    /\ op = "get_access_token" /\ pc = "authorizing"
    /\ browserOpens' = browserOpens + 1
    /\ listenerStarts' = listenerStarts + 1
    /\ pc' = "waiting"
    /\ UNCHANGED <<now, env, sessionFile, op, session, result, calls, fileAtCall,
                   tCheck, tRecheck, tokenPosts, sessionWrites, sessionReads,
                   refreshOutcome, lastResp>>

\* OAuthHandler.wait_for_code returns the code: the exchange request is sent
WaitCode ==
    /\ op = "get_access_token" /\ pc = "waiting"
    /\ tokenPosts' = tokenPosts + 1
    /\ pc' = "exchanging"
    /\ UNCHANGED <<now, env, sessionFile, op, session, result, calls, fileAtCall,
                   tCheck, tRecheck, browserOpens, listenerStarts, sessionWrites,
                   sessionReads, refreshOutcome, lastResp>>

FailClearingSession(cause) ==
    /\ result' = Raised(cause)
    /\ pc' = "done"
    /\ sessionFile' = NoFile
    /\ UNCHANGED <<now, env, op, session, calls, fileAtCall, tCheck,
                   tRecheck, tokenPosts, browserOpens, listenerStarts,
                   sessionWrites, sessionReads, refreshOutcome, lastResp>>

Fail(cause) ==
    /\ result' = Raised(cause)
    /\ pc' = "done"
    /\ UNCHANGED <<now, env, sessionFile, op, session, calls, fileAtCall, tCheck,
                   tRecheck, tokenPosts, browserOpens, listenerStarts,
                   sessionWrites, sessionReads, refreshOutcome, lastResp>>

\* wait_for_code cannot bind the callback port (another listener holds it):
\* HTTPServer raises OSError, which get_access_token reports as a failure
ListenerBindError ==
    /\ op = "get_access_token" /\ pc = "authorizing"
    /\ browserOpens' = browserOpens + 1
    /\ result' = Raised("listener_error")
    /\ pc' = "done"
    /\ UNCHANGED <<now, env, sessionFile, op, session, calls, fileAtCall, tCheck,
                   tRecheck, tokenPosts, listenerStarts, sessionWrites,
                   sessionReads, refreshOutcome, lastResp>>

\* wait_for_code raises ValueError for a recorded provider error
WaitError ==
    /\ op = "get_access_token" /\ pc = "waiting"
    /\ Fail("provider_error")

\* wait_for_code raises TimeoutError
WaitTimeout ==
    /\ op = "get_access_token" /\ pc = "waiting"
    /\ Fail("timeout")

\* ---- authorize: the answers of the token endpoint to the code exchange
ExchangeOk ==
    /\ op = "get_access_token" /\ pc = "exchanging"
    /\ \E body \in Bodies :
        /\ sessionFile' = Some(TokenResponse(body, now))
        /\ lastResp' = Stamp(body, now)
        /\ result' = Returned(TokenResponse(body, now).access_token)
    /\ sessionWrites' = sessionWrites + 1
    /\ pc' = "done"
    /\ UNCHANGED <<now, env, op, session, calls, fileAtCall, tCheck, tRecheck,
                   tokenPosts, browserOpens, listenerStarts, sessionReads,
                   refreshOutcome>>

ExchangeHttpError ==
    /\ op = "get_access_token" /\ pc = "exchanging"
    /\ Fail("exchange_http")

ExchangeNetworkError ==
    /\ op = "get_access_token" /\ pc = "exchanging"
    /\ Fail("exchange_network")

\* ---- module-level configuration of bungie.py
BUNGIE_CLIENT_ID == env.BUNGIE_CLIENT_ID
BUNGIE_CLIENT_SECRET == env.BUNGIE_CLIENT_SECRET

SessionGet(d, k, default) == IF HasKey(d, k) THEN d[k] ELSE default

\* load_token's expiry test: `expires_at and time.time() > expires_at`
BungieTokenExpired(s, t) ==
    /\ HasKey(s, "expires_at")
    /\ s.expires_at # 0
    /\ t > s.expires_at

\* _save_token(token): the session file it writes at time t
SavedToken(tok, t) ==
    [access_token |-> tok, expires_at |-> t + SaveTokenExpiresIn, created_at |-> t]

\* ---- bungie.load_token, up to the callback wait of prompt_for_oauth_token
LoadToken ==
    /\ Enter("load_token")
    /\ session' = None
    /\ tokenPosts' = 0
    /\ sessionReads' = IF sessionFile # NoFile THEN 1 ELSE 0
    /\ IF sessionFile # NoFile /\ SessionGet(sessionFile[1], "access_token", "") # ""
       THEN /\ result' = IF BungieTokenExpired(sessionFile[1], now)
                         THEN ReturnedNone("expired")
                         ELSE Returned(sessionFile[1].access_token)
            /\ pc' = "done"
            /\ browserOpens' = 0
            /\ listenerStarts' = 0
       ELSE IF BUNGIE_CLIENT_ID = "" \/ BUNGIE_CLIENT_SECRET = ""
       THEN /\ result' = ReturnedNone("not_configured")
            /\ pc' = "done"
            /\ browserOpens' = 0
            /\ listenerStarts' = 0
       ELSE /\ result' = Pending
            /\ pc' = "lt_waiting"
            /\ browserOpens' = 1
            /\ listenerStarts' = 1
    /\ UNCHANGED <<now, env, sessionFile, calls>>

LtNone(why) ==
    /\ result' = ReturnedNone(why)
    /\ pc' = "done"
    /\ UNCHANGED <<now, env, sessionFile, op, session, calls, histVars>>

\* get_auth_code returns the code: the exchange request is sent
LtWaitCode ==
    /\ op = "load_token" /\ pc = "lt_waiting"
    /\ tokenPosts' = tokenPosts + 1
    /\ pc' = "lt_exchanging"
    /\ UNCHANGED <<now, env, sessionFile, op, session, result, calls, fileAtCall,
                   tCheck, tRecheck, browserOpens, listenerStarts, sessionWrites,
                   sessionReads, refreshOutcome, lastResp>>

\* get_auth_code raises TimeoutError; load_token catches it
LtWaitTimeout ==
    /\ op = "load_token" /\ pc = "lt_waiting"
    /\ LtNone("timeout")

\* run_auth_server records "Server start failure"; get_auth_code raises RuntimeError
LtServerError ==
    /\ op = "load_token" /\ pc = "lt_waiting"
    /\ LtNone("server_error")

\* prompt_for_oauth_token: a 200 answer; load_token saves a non-empty token
LtExchangeOk ==
    /\ op = "load_token" /\ pc = "lt_exchanging"
    /\ \E tok \in AccessTokens \cup {""} :
        IF tok = ""
        THEN /\ result' = ReturnedNone("no_access_token")
             /\ UNCHANGED <<sessionFile, sessionWrites>>
        ELSE /\ result' = Returned(tok)
             /\ sessionFile' = Some(SavedToken(tok, now))
             /\ sessionWrites' = sessionWrites + 1
    /\ pc' = "done"
    /\ UNCHANGED <<now, env, op, session, calls, fileAtCall, tCheck, tRecheck,
                   tokenPosts, browserOpens, listenerStarts, sessionReads,
                   refreshOutcome, lastResp>>

\* response.raise_for_status() raises; load_token catches it
LtExchangeHttpError ==
    /\ op = "load_token" /\ pc = "lt_exchanging"
    /\ LtNone("exchange_http")

LtExchangeNetworkError ==
    /\ op = "load_token" /\ pc = "lt_exchanging"
    /\ LtNone("exchange_network")

\* the operation's caller has its result; the next operation may start
Return ==
    /\ pc = "done"
    /\ pc' = "idle"
    /\ op' = "none"
    /\ calls' = calls + 1
    /\ session' = None
    /\ result' = Pending
    /\ fileAtCall' = NoFile
    /\ tCheck' = 0
    /\ tRecheck' = 0
    /\ tokenPosts' = 0
    /\ browserOpens' = 0
    /\ listenerStarts' = 0
    /\ sessionWrites' = 0
    /\ sessionReads' = 0
    /\ refreshOutcome' = "none"
    /\ lastResp' = NoResp
    /\ UNCHANGED <<now, env, sessionFile>>

\* ---- oauth.clear_session (logout)
ClearSession ==
    /\ pc = "idle"
    /\ sessionFile # NoFile
    /\ sessionFile' = NoFile
    /\ UNCHANGED <<now, env, op, pc, session, result, calls, histVars>>

\* the token lifecycle leaves the receivers and the fetch pipeline at rest
AtRest == UNCHANGED <<clock, receiverVars, flaskVars, fetchVars, gateVars, boundaryVars,
                      utilityVars>>

Next ==
    \/ Tick /\ AtRest
    \/ GetAccessToken /\ AtRest
    \/ RefreshOk /\ AtRest
    \/ RefreshHttpError /\ AtRest
    \/ RefreshNetworkError /\ AtRest
    \/ CheckRefreshed /\ AtRest
    \/ AuthorizeStart /\ AtRest
    \/ ListenerBindError /\ AtRest
    \/ WaitCode /\ AtRest
    \/ WaitError /\ AtRest
    \/ WaitTimeout /\ AtRest
    \/ ExchangeOk /\ AtRest
    \/ ExchangeHttpError /\ AtRest
    \/ ExchangeNetworkError /\ AtRest
    \/ LoadToken /\ AtRest
    \/ LtWaitCode /\ AtRest
    \/ LtWaitTimeout /\ AtRest
    \/ LtServerError /\ AtRest
    \/ LtExchangeOk /\ AtRest
    \/ LtExchangeHttpError /\ AtRest
    \/ LtExchangeNetworkError /\ AtRest
    \/ Return /\ AtRest
    \/ ClearSession /\ AtRest

Spec == Init /\ [][Next]_vars

\* ======================= oauth.py: the callback receiver =======================
\* Times of the receivers and of the fetch pipeline are tenths of a second.
\* wait_for_code is entered with every timeout from 0 to MaxTimeout tenths (the
\* default is 180 s): some are multiples of the polling interval, as 180 s is of
\* 0.2 s, and some are not.  A sleep lasts exactly the time asked for.

MaxTimeout == 5
MaxWaits == 2
MaxCallbacks == 2

PollInterval == 2

AuthCodes == {"c1", "c2"}
ProviderErrors == {"access_denied"}

\* a process that is configured and has no session: the state of the token
\* lifecycle while a receiver is looked at on its own
RestEnv == [BUNGIE_API_KEY |-> "key", BUNGIE_CLIENT_ID |-> "cid",
            RAIDASSIST_TEST_MODE |-> "false", TEST_TOKEN |-> "",
            BUNGIE_CLIENT_SECRET |-> "sec"]

LifecycleIdle == env = RestEnv /\ sessionFile = NoFile /\ CallIdle

\* parse_qs(url.query) of a request to the listener: the keys with a value
Queries == {[k \in K |-> IF k = "code" THEN c ELSE e] :
                K \in SUBSET {"code", "error"}, c \in AuthCodes, e \in ProviderErrors}

ExpiredOnePollLate(elapsed, timeout) == elapsed > timeout + PollInterval

\* `time.time() - start_time > timeout`
Expired(elapsed, timeout) == elapsed > timeout

AfterLoopFallingThrough(code, error) ==
    IF error # None
    THEN [value |-> code, code |-> None, error |-> None, outcomes |-> {"error", "code"}]
    ELSE [value |-> code, code |-> None, error |-> error, outcomes |-> {"code"}]

\* what wait_for_code does once the loop is left and the server is shut down
AfterLoop(code, error) ==
    IF error # None
    THEN [value |-> error, code |-> code, error |-> None, outcomes |-> {"error"}]
    ELSE [value |-> code, code |-> None, error |-> error, outcomes |-> {"code"}]

notReceiver == <<lifecycleVars, flaskVars, fetchVars, gateVars, boundaryVars, utilityVars>>

\* OAuthHandler.do_GET, on the server's thread
do_GET ==
    /\ listener = "serving"
    /\ callbacks < MaxCallbacks
    /\ callbacks' = callbacks + 1
    /\ \E query \in Queries :
         IF HasKey(query, "error")
         THEN /\ handlerError' = Some(query["error"])
              /\ recorded' = recorded \cup {<<"error", query["error"]>>}
              /\ wQuiet' = FALSE
              /\ UNCHANGED handlerCode
         ELSE IF HasKey(query, "code")
         THEN /\ handlerCode' = Some(query["code"])
              /\ recorded' = recorded \cup {<<"code", query["code"]>>}
              /\ wQuiet' = FALSE
              /\ UNCHANGED handlerError
         ELSE UNCHANGED <<handlerCode, handlerError, recorded, wQuiet>>
    /\ UNCHANGED <<clock, listener, wpc, wTimeout, wStart, wOutcomes, wValue, waits>>
    /\ UNCHANGED notReceiver

\* wait_for_code is called: the server is bound and its thread started
WaitForCode ==
    /\ wpc = "idle"
    /\ waits < MaxWaits
    /\ \E timeout \in 0..MaxTimeout : wTimeout' = timeout
    /\ wValue' = None
    /\ IF listener = "none"
       THEN /\ listener' = "serving"
            /\ wStart' = clock
            /\ wQuiet' = (handlerCode = None /\ handlerError = None)
            /\ wOutcomes' = {}
            /\ wpc' = "loop"
       ELSE \* the port is still bound: HTTPServer(...) raises OSError
            /\ wOutcomes' = {"bind_error"}
            /\ wpc' = "done"
            /\ UNCHANGED <<listener, wStart, wQuiet>>
    /\ UNCHANGED <<clock, handlerCode, handlerError, recorded, waits, callbacks>>
    /\ UNCHANGED notReceiver

\* the `while` condition
WaitLoopTest ==
    /\ wpc = "loop"
    /\ wpc' = IF handlerCode = None /\ handlerError = None THEN "test_time" ELSE "stop"
    /\ UNCHANGED <<clock, handlerCode, handlerError, listener, wTimeout, wStart, wOutcomes,
                   wValue, wQuiet, recorded, waits, callbacks>>
    /\ UNCHANGED notReceiver

\* the timeout test inside the loop
WaitTimeoutTest ==
    /\ wpc = "test_time"
    /\ wpc' = IF Expired(clock - wStart, wTimeout) THEN "stop_timed_out" ELSE "sleep"
    /\ UNCHANGED <<clock, handlerCode, handlerError, listener, wTimeout, wStart, wOutcomes,
                   wValue, wQuiet, recorded, waits, callbacks>>
    /\ UNCHANGED notReceiver

\* time.sleep(0.2)
WaitSleep ==
    /\ wpc = "sleep"
    /\ clock' = clock + PollInterval
    /\ wpc' = "loop"
    /\ UNCHANGED <<handlerCode, handlerError, listener, wTimeout, wStart, wOutcomes,
                   wValue, wQuiet, recorded, waits, callbacks>>
    /\ UNCHANGED notReceiver

\* server.shutdown(); raise TimeoutError
WaitTimedOut ==
    /\ wpc = "stop_timed_out"
    /\ listener' = "stopped"
    /\ wOutcomes' = wOutcomes \cup {"timeout"}
    /\ wpc' = "done"
    /\ UNCHANGED <<clock, handlerCode, handlerError, wTimeout, wStart, wValue, wQuiet,
                   recorded, waits, callbacks>>
    /\ UNCHANGED notReceiver

\* server.shutdown(); raise ValueError for the error, or return the code
WaitFinish ==
    /\ wpc = "stop"
    /\ listener' = "stopped"
    /\ LET r == AfterLoop(handlerCode, handlerError)
       IN  /\ wOutcomes' = wOutcomes \cup r.outcomes
           /\ wValue' = r.value
           /\ handlerCode' = r.code
           /\ handlerError' = r.error
    /\ wpc' = "done"
    /\ UNCHANGED <<clock, wTimeout, wStart, wQuiet, recorded, waits, callbacks>>
    /\ UNCHANGED notReceiver

\* the caller has the result of wait_for_code
WaitReturn ==
    /\ wpc = "done"
    /\ wpc' = "idle"
    /\ waits' = waits + 1
    /\ wOutcomes' = {}
    /\ wValue' = None
    /\ wTimeout' = 0
    /\ wStart' = 0
    /\ wQuiet' = TRUE
    /\ UNCHANGED <<clock, handlerCode, handlerError, listener, recorded, callbacks>>
    /\ UNCHANGED notReceiver

\* the server object is dropped and its socket closed (server_close is never
\* called: the socket lives until the object is collected)
ListenerReclaimed ==
    /\ listener = "stopped"
    /\ wpc \in {"done", "idle"}
    /\ listener' = "none"
    /\ UNCHANGED <<clock, handlerCode, handlerError, wpc, wTimeout, wStart, wOutcomes,
                   wValue, wQuiet, recorded, waits, callbacks>>
    /\ UNCHANGED notReceiver

ReceiverInit ==
    /\ LifecycleIdle
    /\ clock = 0
    /\ ReceiverIdle
    /\ FlaskIdle
    /\ FetchIdle
    /\ GateIdle
    /\ BoundaryIdle
    /\ UtilityIdle

\* the steps of the thread that called wait_for_code
WaitSteps == WaitLoopTest \/ WaitTimeoutTest \/ WaitSleep \/ WaitTimedOut \/ WaitFinish

ReceiverNext ==
    \/ do_GET
    \/ WaitForCode
    \/ WaitLoopTest
    \/ WaitTimeoutTest
    \/ WaitSleep
    \/ WaitTimedOut
    \/ WaitFinish
    \/ WaitReturn
    \/ ListenerReclaimed

SpecReceiver == ReceiverInit /\ [][ReceiverNext]_vars

\* the calling thread is scheduled: a step of it that can be taken is taken
SpecReceiverFair == SpecReceiver /\ WF_vars(WaitSteps)

\* ======================= auth_server.py: the Flask callback receiver =======================
\* Flask is installed (FLASK_AVAILABLE).  Each of the two threads may call
\* get_auth_code; the provider hands out a fresh code with every redirect, so the
\* n-th request to /callback that carries a code carries the code named n.

CheckInterval == 5
ServerStartFailure == "Server start failure"

\* request.args of the n-th request to /callback
CallbackArgs(n) == {[k \in K |-> IF k = "code" THEN ToString(n) ELSE e] :
                        K \in SUBSET {"code", "error"}, e \in ProviderErrors}

notFlask == <<lifecycleVars, clock, receiverVars, fetchVars, gateVars, boundaryVars,
             utilityVars>>

\* get_auth_code up to its loop: the dict is cleared, a server thread started
GetAuthCode(f) ==
    /\ gpc[f] = "idle"
    /\ gCalls < MaxWaits
    /\ received_code' = EmptyDict
    /\ pendingStarts' = pendingStarts + 1
    /\ \E timeout \in 0..MaxTimeout : gTimeout' = [gTimeout EXCEPT ![f] = timeout]
    /\ gWaited' = [gWaited EXCEPT ![f] = 0]
    /\ gOutcome' = [gOutcome EXCEPT ![f] = NoOutcome]
    /\ gpc' = [gpc EXCEPT ![f] = "loop"]
    /\ UNCHANGED <<flaskServing, gCalls, gCallbacks>>
    /\ UNCHANGED notFlask

\* run_auth_server on its daemon thread: app.run serves until the process
\* exits, or fails to bind the port another app.run holds
RunAuthServer ==
    /\ pendingStarts > 0
    /\ pendingStarts' = pendingStarts - 1
    /\ IF flaskServing
       THEN /\ received_code' = Put(received_code, "error", ServerStartFailure)
            /\ UNCHANGED flaskServing
       ELSE /\ flaskServing' = TRUE
            /\ UNCHANGED received_code
    /\ UNCHANGED <<gpc, gWaited, gTimeout, gOutcome, gCalls, gCallbacks>>
    /\ UNCHANGED notFlask

\* the /callback route
Callback ==
    /\ flaskServing
    /\ gCallbacks < MaxCallbacks
    /\ gCallbacks' = gCallbacks + 1
    /\ \E args \in CallbackArgs(gCallbacks + 1) :
         IF HasKey(args, "error") \/ ~HasKey(args, "code")
         THEN UNCHANGED received_code
         ELSE received_code' = Put(received_code, "code", args["code"])
    /\ UNCHANGED <<flaskServing, pendingStarts, gpc, gWaited, gTimeout, gOutcome, gCalls>>
    /\ UNCHANGED notFlask

\* the `while` condition
GacLoopTest(f) ==
    /\ gpc[f] = "loop"
    /\ gpc' = [gpc EXCEPT ![f] =
                 IF ~HasKey(received_code, "code") /\ ~HasKey(received_code, "error")
                 THEN "sleep" ELSE "after"]
    /\ UNCHANGED <<received_code, flaskServing, pendingStarts, gWaited, gTimeout, gOutcome,
                   gCalls, gCallbacks>>
    /\ UNCHANGED notFlask

\* the loop body: sleep, count, raise TimeoutError when over the timeout
GacSleep(f) ==
    /\ gpc[f] = "sleep"
    /\ gWaited' = [gWaited EXCEPT ![f] = @ + CheckInterval]
    /\ IF gWaited'[f] > gTimeout[f]
       THEN /\ gOutcome' = [gOutcome EXCEPT ![f] = [kind |-> "timeout", value |-> ""]]
            /\ gpc' = [gpc EXCEPT ![f] = "done"]
       ELSE /\ gpc' = [gpc EXCEPT ![f] = "loop"]
            /\ UNCHANGED gOutcome
    /\ UNCHANGED <<received_code, flaskServing, pendingStarts, gTimeout, gCalls, gCallbacks>>
    /\ UNCHANGED notFlask

\* after the loop: RuntimeError for a recorded error, else received_code["code"]
GacAfter(f) ==
    /\ gpc[f] = "after"
    /\ gOutcome' = [gOutcome EXCEPT ![f] =
                      IF HasKey(received_code, "error")
                      THEN [kind |-> "error", value |-> received_code["error"]]
                      ELSE IF HasKey(received_code, "code")
                      THEN [kind |-> "code", value |-> received_code["code"]]
                      ELSE [kind |-> "key_error", value |-> ""]]
    /\ gpc' = [gpc EXCEPT ![f] = "done"]
    /\ UNCHANGED <<received_code, flaskServing, pendingStarts, gWaited, gTimeout, gCalls,
                   gCallbacks>>
    /\ UNCHANGED notFlask

\* the caller has the result of get_auth_code
GacReturn(f) ==
    /\ gpc[f] = "done"
    /\ gpc' = [gpc EXCEPT ![f] = "idle"]
    /\ gCalls' = gCalls + 1
    /\ UNCHANGED <<received_code, flaskServing, pendingStarts, gWaited, gTimeout, gOutcome,
                   gCallbacks>>
    /\ UNCHANGED notFlask

FlaskInit ==
    /\ LifecycleIdle
    /\ clock = 0
    /\ ReceiverIdle
    /\ FlaskIdle
    /\ FetchIdle
    /\ GateIdle
    /\ BoundaryIdle
    /\ UtilityIdle

FlaskNext ==
    \/ RunAuthServer
    \/ Callback
    \/ \E f \in Flows : GetAuthCode(f)
    \/ \E f \in Flows : GacLoopTest(f)
    \/ \E f \in Flows : GacSleep(f)
    \/ \E f \in Flows : GacAfter(f)
    \/ \E f \in Flows : GacReturn(f)

SpecFlask == FlaskInit /\ [][FlaskNext]_vars

\* ======================= bungie.py: fetch_profile =======================
\* One call of fetch_profile.  Every attempt is two steps: load_token
\* (with the interactive flow it may run), then the rate limiter, the request
\* and the handling of its answer, up to the `continue` or the `return`.
\* The files of this part hold their times in tenths of a second, as the clock.

MaxRetries == 3

MinRequestInterval == 1
DefaultRetryAfter == 60
CacheVersion == "1.0"

\* time.time() when the process is looked at: far from LAST_REQUEST_TIME's 0
Epoch == 100000

Tenths(seconds) == 10 * seconds

\* ---- JSON values: a type and, for an object, its members
JObject(members) == [members |-> members, type |-> "object"]
JString(s) == [members |-> [text |-> s], type |-> "string"]
JArray == [members |-> [text |-> ""], type |-> "array"]

IsDict(j) == j.type = "object"

ProfilePayload == JObject([Response |-> JObject([profile |-> JString("ok")])])
SparsePayload == JObject([Response |-> JObject([metrics |-> JString("m")])])
ErrorPayload == JObject([ErrorCode |-> JString("5"), Message |-> JString("down")])
ScalarResponsePayload == JObject([Response |-> JString("none")])

\* response.json(): None when the body is not JSON
Bodies200 == {Some(ProfilePayload), Some(SparsePayload), Some(ErrorPayload),
              Some(ScalarResponsePayload), Some(JArray), None}

RetryAfterHeaders == {EmptyDict, Put(EmptyDict, "Retry-After", "2"),
                      Put(EmptyDict, "Retry-After", "Fri, 07 Nov 2025 09:00:00 GMT")}

\* int(s) for the header values above: None when int() raises ValueError
ParseInt(s) == IF s = "2" THEN Some(2) ELSE None

HttpResponse(status, headers, body) ==
    [kind |-> "response", body |-> body, status |-> status, headers |-> headers]
RequestFailure(kind) ==
    [kind |-> kind, body |-> None, status |-> 0, headers |-> EmptyDict]

\* requests.get takes less than a tenth of a second, or one tenth
Latencies == {0, 1}

\* the token a fresh authorization yields
FreshTokens == {"A1"}

\* how the token request of prompt_for_oauth_token ends: with an access token,
\* with a 200 answer that holds none (""), or with an error
ExchangeAnswers == FreshTokens \cup {"", "request_failed"}

\* the session file when fetch_profile is called
FetchSessions ==
    {[access_token |-> "A0"],
     [access_token |-> "A0", expires_at |-> Epoch + Tenths(SaveTokenExpiresIn), created_at |-> Epoch],
     [access_token |-> "A0", expires_at |-> Epoch - 1, created_at |-> 1],
     [access_token |-> "", expires_at |-> Epoch + Tenths(SaveTokenExpiresIn), created_at |-> Epoch]}

FetchEnvs == {RestEnv, [RestEnv EXCEPT !.BUNGIE_CLIENT_SECRET = ""]}

\* _save_token(token) at time t
SavedTokenAt(tok, t) ==
    [access_token |-> tok, expires_at |-> t + Tenths(SaveTokenExpiresIn), created_at |-> t]

RateLimitNoSleep(t, last) == [now |-> t, slept |-> 0 * last]

\* _rate_limit() entered at time t: the sleep, and the time it returns at
RateLimit(t, last) ==
    LET since == t - last
        sleep == IF since < MinRequestInterval THEN MinRequestInterval - since ELSE 0
    IN  [now |-> t + sleep, slept |-> sleep]

validate_profile_response_strict(data) ==
    /\ IsDict(data)
    /\ HasKey(data.members, "Response")
    /\ IsDict(data.members["Response"])
    /\ \/ HasKey(data.members["Response"].members, "profile")
       \/ HasKey(data.members["Response"].members, "characters")

\* _validate_profile_response
validate_profile_response(data) ==
    IF ~IsDict(data) THEN FALSE
    ELSE IF ~HasKey(data.members, "Response") THEN FALSE
    ELSE IF ~IsDict(data.members["Response"]) THEN FALSE
    ELSE IF \E component \in {"profile", "characters"} :
                HasKey(data.members["Response"].members, component) THEN TRUE
    ELSE TRUE

CacheEntryOfResponse(payload, t) ==
    [profile |-> payload.members["Response"], cached_at |-> t, cache_version |-> CacheVersion]

\* _cache_profile: the cache file's content
CacheEntry(payload, t) ==
    [profile |-> payload, cached_at |-> t, cache_version |-> CacheVersion]

ClearTokenKeeping(file) == file

\* _clear_token
ClearToken(file) == NoFile

RetryAfterIgnoringHeader(headers) == Some(DefaultRetryAfter)

\* int(response.headers.get("Retry-After", 60)): None when int() raises
RetryAfterSeconds(headers) ==
    IF HasKey(headers, "Retry-After") THEN ParseInt(headers["Retry-After"])
    ELSE Some(DefaultRetryAfter)

BackoffUnavailableFlat(a) == 5 * (0 * a + 1)
BackoffConnectionAsTimeout(a) == 2 * (a + 1)

\* the sleeps before a retry, in seconds
BackoffUnavailable(a) == 5 * (a + 1)
BackoffTimeout(a) == 2 * (a + 1)
BackoffConnection(a) == 5 * (a + 1)
BackoffRequestException(a) == 2 * (a + 1)

FetchNone(why) == [kind |-> "none", why |-> why, payload |-> None]
FetchProfileResult(payload) == [kind |-> "profile", why |-> "", payload |-> Some(payload)]

\* ---- what an attempt does with its answer: sleep / clear / cache, then
\* `continue` (again) or `return` (result)
Handling(sleep, clear, cache, again, res) ==
    [result |-> res, sleep |-> sleep, clear |-> clear, cache |-> cache, again |-> again]
Again(sleep) == Handling(sleep, FALSE, None, TRUE, NoResult)
GiveUp(why) == Handling(None, FALSE, None, FALSE, FetchNone(why))

IsLastOffByOne(a, retries) == ~(a < retries)

IsLast(a, retries) == ~(a < retries - 1)

On200RetryingInvalid(body) ==
    IF body = None THEN GiveUp("unexpected_error")
    ELSE IF ~validate_profile_response(body[1]) THEN Again(None)
    ELSE Handling(None, FALSE, body, FALSE, FetchProfileResult(body[1]))

On200CachingFirst(body) ==
    IF body = None THEN GiveUp("unexpected_error")
    ELSE IF ~validate_profile_response(body[1])
    THEN Handling(None, FALSE, body, FALSE, FetchNone("invalid_response"))
    ELSE Handling(None, FALSE, body, FALSE, FetchProfileResult(body[1]))

\* status 200: response.json(), _validate_profile_response, _cache_profile
On200(body) ==
    IF body = None THEN GiveUp("unexpected_error")
    ELSE IF ~validate_profile_response(body[1]) THEN GiveUp("invalid_response")
    ELSE Handling(None, FALSE, body, FALSE, FetchProfileResult(body[1]))

On401(a, retries) ==
    IF ~IsLast(a, retries) THEN Handling(None, TRUE, None, TRUE, NoResult)
    ELSE Handling(None, TRUE, None, FALSE, FetchNone("authentication_failed"))

On429(headers, a, retries) ==
    IF RetryAfterSeconds(headers) = None THEN GiveUp("unexpected_error")
    ELSE IF ~IsLast(a, retries) THEN Again(RetryAfterSeconds(headers))
    ELSE GiveUp("rate_limited")

On503(a, retries) ==
    IF ~IsLast(a, retries) THEN Again(Some(BackoffUnavailable(a)))
    ELSE GiveUp("service_unavailable")

OnRequestException(a, retries) ==
    IF ~IsLast(a, retries) THEN Again(Some(BackoffRequestException(a)))
    ELSE GiveUp("network_error")

\* any other status: raise_for_status() raises HTTPError, a RequestException,
\* for 4xx and 5xx; for another status the `try` ends and the loop goes on
OnOtherStatus(status, a, retries) ==
    IF status >= 400 THEN OnRequestException(a, retries)
    ELSE Again(None)

OnTimeout(a, retries) ==
    IF ~IsLast(a, retries) THEN Again(Some(BackoffTimeout(a)))
    ELSE GiveUp("timeout")

OnConnectionError(a, retries) ==
    IF ~IsLast(a, retries) THEN Again(Some(BackoffConnection(a)))
    ELSE GiveUp("connection_failed")

WithoutTokenRequesting(a) == [result |-> NoResult, fpc |-> "request"]

\* `if not token: return None`
WithoutToken(a) == [result |-> FetchNone("no_token"), fpc |-> "done"]

notFetch == <<callVars, receiverVars, flaskVars, gateVars, boundaryVars, utilityVars>>

\* fetch_profile is called
FetchProfile ==
    /\ fpc = "idle"
    /\ \E retries \in 0..MaxRetries :
        /\ retryAttempts' = retries
        /\ IF retries = 0
           THEN fpc' = "done" /\ fResult' = FetchNone("attempts_exhausted")
           ELSE fpc' = "attempt" /\ fResult' = NoResult
    /\ attempt' = 0
    /\ token' = None
    /\ attemptLog' = <<>>
    /\ gateSleeps' = 0
    /\ authStarts' = 0
    /\ tokenFailed' = FALSE
    /\ cacheWrites' = 0
    /\ cacheAtCall' = profileCache
    /\ UNCHANGED <<env, sessionFile, clock, lastRequestTime, profileCache>>
    /\ UNCHANGED notFetch

\* load_token returned nothing
FetchNoToken ==
    /\ tokenFailed' = TRUE
    /\ token' = None
    /\ fpc' = WithoutToken(attempt).fpc
    /\ fResult' = WithoutToken(attempt).result

\* `token = load_token()` and the test of it
FetchLoadToken ==
    /\ fpc = "attempt"
    /\ IF sessionFile # NoFile /\ SessionGet(sessionFile[1], "access_token", "") # ""
       THEN \* the stored token, unless it has expired
            /\ IF BungieTokenExpired(sessionFile[1], clock)
               THEN FetchNoToken
               ELSE /\ token' = Some(sessionFile[1].access_token)
                    /\ fpc' = "request"
                    /\ UNCHANGED <<fResult, tokenFailed>>
            /\ UNCHANGED <<sessionFile, clock, lastRequestTime, authStarts>>
       ELSE IF BUNGIE_CLIENT_ID = "" \/ BUNGIE_CLIENT_SECRET = ""
       THEN \* prompt_for_oauth_token raises ValueError
            /\ FetchNoToken
            /\ UNCHANGED <<sessionFile, clock, lastRequestTime, authStarts>>
       ELSE \* prompt_for_oauth_token: the interactive flow
            /\ authStarts' = authStarts + 1
            /\ \/ \* get_auth_code raises
                  /\ FetchNoToken
                  /\ UNCHANGED <<sessionFile, clock, lastRequestTime>>
               \/ \* the code is exchanged: _rate_limit(), requests.post
                  \E d \in Latencies : \E tok \in ExchangeAnswers :
                    LET g == RateLimit(clock, lastRequestTime)
                    IN  /\ lastRequestTime' = g.now
                        /\ clock' = g.now + d
                        /\ IF tok \in FreshTokens
                           THEN /\ sessionFile' = Some(SavedTokenAt(tok, clock'))
                                /\ token' = Some(tok)
                                /\ fpc' = "request"
                                /\ UNCHANGED <<fResult, tokenFailed>>
                           ELSE /\ FetchNoToken
                                /\ UNCHANGED sessionFile
    /\ UNCHANGED <<env, profileCache, retryAttempts, attempt, attemptLog, gateSleeps,
                   cacheWrites, cacheAtCall>>
    /\ UNCHANGED notFetch

\* _rate_limit(), requests.get, and the handling h of the answer resp
Attempted(resp, h) ==
    /\ fpc = "request"
    /\ \E d \in Latencies :
        LET g == RateLimit(clock, lastRequestTime)
            answered == g.now + d
        IN  /\ lastRequestTime' = g.now
            /\ gateSleeps' = gateSleeps + (IF g.slept > 0 THEN 1 ELSE 0)
            /\ clock' = answered + (IF h.sleep = None THEN 0 ELSE Tenths(h.sleep[1]))
            /\ profileCache' = IF h.cache = None THEN profileCache
                               ELSE Some(CacheEntry(h.cache[1], answered))
    /\ cacheWrites' = cacheWrites + (IF h.cache = None THEN 0 ELSE 1)
    /\ attemptLog' = Append(attemptLog, [attempt |-> attempt, slept |-> h.sleep, resp |-> resp])
    /\ sessionFile' = IF h.clear THEN ClearToken(sessionFile) ELSE sessionFile
    /\ IF h.again
       THEN IF attempt + 1 < retryAttempts
            THEN fpc' = "attempt" /\ attempt' = attempt + 1 /\ fResult' = NoResult
            ELSE fpc' = "done" /\ fResult' = FetchNone("attempts_exhausted") /\ UNCHANGED attempt
       ELSE fpc' = "done" /\ fResult' = h.result /\ UNCHANGED attempt
    /\ UNCHANGED <<env, retryAttempts, token, authStarts, tokenFailed, cacheAtCall>>
    /\ UNCHANGED notFetch

FetchOk ==
    \E body \in Bodies200 :
        Attempted(HttpResponse(200, EmptyDict, body), On200(body))

\* a 200 answer whose body is not JSON, with requests 2.27 or later: there
\* response.json() raises requests.exceptions.JSONDecodeError, a
\* RequestException (with an earlier requests it raises ValueError: FetchOk)
FetchNotJson ==
    Attempted(HttpResponse(200, EmptyDict, None), OnRequestException(attempt, retryAttempts))

FetchUnauthorized ==
    Attempted(HttpResponse(401, EmptyDict, None), On401(attempt, retryAttempts))

FetchRateLimited ==
    \E headers \in RetryAfterHeaders :
        Attempted(HttpResponse(429, headers, None), On429(headers, attempt, retryAttempts))

FetchUnavailable ==
    Attempted(HttpResponse(503, EmptyDict, None), On503(attempt, retryAttempts))

FetchOtherStatus ==
    \E status \in {204, 500} :
        Attempted(HttpResponse(status, EmptyDict, None),
                  OnOtherStatus(status, attempt, retryAttempts))

FetchTimeout ==
    Attempted(RequestFailure("timeout"), OnTimeout(attempt, retryAttempts))

FetchConnectionError ==
    Attempted(RequestFailure("connection_error"), OnConnectionError(attempt, retryAttempts))

FetchRequestException ==
    Attempted(RequestFailure("request_exception"), OnRequestException(attempt, retryAttempts))

\* a profile cached by an earlier run of the application
StaleCacheEntry == CacheEntry(SparsePayload, Epoch - Tenths(DefaultRetryAfter))

FetchInit ==
    /\ env \in FetchEnvs
    /\ sessionFile \in {NoFile} \cup {Some(s) : s \in FetchSessions}
    /\ CallIdle
    /\ clock = Epoch
    /\ ReceiverIdle
    /\ FlaskIdle
    /\ lastRequestTime \in {0, Epoch}
    /\ profileCache \in {NoFile, Some(StaleCacheEntry)}
    /\ FetchCallIdle
    /\ GateIdle
    /\ BoundaryIdle
    /\ UtilityIdle

FetchNext ==
    \/ FetchProfile
    \/ FetchLoadToken
    \/ FetchOk
    \/ FetchNotJson
    \/ FetchUnauthorized
    \/ FetchRateLimited
    \/ FetchUnavailable
    \/ FetchOtherStatus
    \/ FetchTimeout
    \/ FetchConnectionError
    \/ FetchRequestException

SpecFetch == FetchInit /\ [][FetchNext]_vars

\* the calling thread keeps running, and every request is answered or fails.
\* The call starts without a session file or with a dated session of a
\* non-empty token (an undated session is used as a valid one is, an empty
\* token as no file is)
FetchFairInit ==
    /\ FetchInit
    /\ lastRequestTime = 0
    /\ profileCache = NoFile
    /\ sessionFile # NoFile =>
            HasKey(sessionFile[1], "expires_at") /\ sessionFile[1].access_token # ""

SpecFetchFair == FetchFairInit /\ [][FetchNext]_vars /\ WF_vars(FetchNext)

\* ======================= bungie.py: _rate_limit and its callers =======================
\* The GUI thread and the refresh thread (interface.py: DataRefreshThread) send
\* requests to the external API.  _rate_limit has no lock: its statements are
\* steps of their own and the two threads interleave between them.

MaxGateCalls == 3
MaxGateTime == 2

\* the call sites that send a request after _rate_limit()
GatedSites == {"profile", "membership", "probe"}
\* manifest.fetch_manifest sends its two requests without it
Sites == GatedSites \cup {"manifest"}

notGate == <<lifecycleVars, receiverVars, flaskVars, profileCache, fpc, retryAttempts,
             attempt, token, fResult, attemptLog, gateSleeps, authStarts, tokenFailed,
             cacheWrites, cacheAtCall, boundaryVars, utilityVars>>

\* time passes
GateTick ==
    /\ clock < Epoch + MaxGateTime
    /\ clock' = clock + 1
    /\ UNCHANGED <<lastRequestTime, gateVars>>
    /\ UNCHANGED notGate

\* a thread calls fetch_profile, get_membership_info, test_api_connection or
\* fetch_manifest and comes to the point where the request is prepared
CallSite(th) ==
    /\ tpc[th] = "idle"
    /\ gateCalls < MaxGateCalls
    /\ gateCalls' = gateCalls + 1
    /\ \E s \in Sites :
        /\ tSite' = [tSite EXCEPT ![th] = s]
        /\ tpc' = [tpc EXCEPT ![th] = IF s \in GatedSites THEN "enter" ELSE "metadata"]
    /\ tGated' = [tGated EXCEPT ![th] = FALSE]
    /\ UNCHANGED <<clock, lastRequestTime, tNow, tWake, tSlept, tSeen, gateLog, requestLog>>
    /\ UNCHANGED notGate

\* `current_time = time.time()`
GateReadTime(th) ==
    /\ tpc[th] = "enter"
    /\ tNow' = [tNow EXCEPT ![th] = clock]
    /\ tSeen' = [tSeen EXCEPT ![th] = Len(gateLog)]
    /\ tpc' = [tpc EXCEPT ![th] = "check"]
    /\ UNCHANGED <<clock, lastRequestTime, tSite, tWake, tSlept, tGated, gateLog,
                   requestLog, gateCalls>>
    /\ UNCHANGED notGate

\* `time_since_last = current_time - LAST_REQUEST_TIME` and the test of it;
\* time.sleep(sleep_time) starts now
GateCheck(th) ==
    /\ tpc[th] = "check"
    /\ LET g == RateLimit(tNow[th], lastRequestTime)
       IN  /\ tSlept' = [tSlept EXCEPT ![th] = g.slept]
           /\ tWake' = [tWake EXCEPT ![th] = clock + g.slept]
           /\ tpc' = [tpc EXCEPT ![th] = IF g.slept > 0 THEN "sleep" ELSE "stamp"]
    /\ UNCHANGED <<clock, lastRequestTime, tSite, tNow, tSeen, tGated, gateLog,
                   requestLog, gateCalls>>
    /\ UNCHANGED notGate

\* time.sleep returns, not before the time asked for
GateWake(th) ==
    /\ tpc[th] = "sleep"
    /\ clock >= tWake[th]
    /\ tpc' = [tpc EXCEPT ![th] = "stamp"]
    /\ UNCHANGED <<clock, lastRequestTime, tSite, tNow, tWake, tSlept, tSeen, tGated,
                   gateLog, requestLog, gateCalls>>
    /\ UNCHANGED notGate

\* `LAST_REQUEST_TIME = time.time()`
GateStamp(th) ==
    /\ tpc[th] = "stamp"
    /\ lastRequestTime' = clock
    /\ gateLog' = Append(gateLog, [at |-> clock, slept |-> tSlept[th], seen |-> tSeen[th]])
    /\ tGated' = [tGated EXCEPT ![th] = TRUE]
    /\ tpc' = [tpc EXCEPT ![th] = "request"]
    /\ UNCHANGED <<clock, tSite, tNow, tWake, tSlept, tSeen, requestLog, gateCalls>>
    /\ UNCHANGED notGate

\* the request a thread sends, as the log keeps it
Sent(th) == [site |-> tSite[th], gated |-> tGated[th]]

\* the caller returns: its locals are gone
Returns(th) ==
    /\ tpc' = [tpc EXCEPT ![th] = "idle"]
    /\ tSite' = [tSite EXCEPT ![th] = "none"]
    /\ tNow' = [tNow EXCEPT ![th] = 0]
    /\ tWake' = [tWake EXCEPT ![th] = 0]
    /\ tSlept' = [tSlept EXCEPT ![th] = 0]
    /\ tSeen' = [tSeen EXCEPT ![th] = 0]
    /\ tGated' = [tGated EXCEPT ![th] = FALSE]

\* requests.get after _rate_limit(), and the return of the caller
GatedRequest(th) ==
    /\ tpc[th] = "request"
    /\ requestLog' = requestLog \cup {Sent(th)}
    /\ Returns(th)
    /\ UNCHANGED <<clock, lastRequestTime, gateLog, gateCalls>>
    /\ UNCHANGED notGate

\* fetch_manifest: requests.get(MANIFEST_URL); the download follows unless
\* raise_for_status or the path lookup raised
ManifestMetadata(th) ==
    /\ tpc[th] = "metadata"
    /\ requestLog' = requestLog \cup {Sent(th)}
    /\ \/ /\ tpc' = [tpc EXCEPT ![th] = "content"]
          /\ UNCHANGED <<tSite, tNow, tWake, tSlept, tSeen, tGated>>
       \/ Returns(th)
    /\ UNCHANGED <<clock, lastRequestTime, gateLog, gateCalls>>
    /\ UNCHANGED notGate

\* fetch_manifest: requests.get(url) of the item definitions
ManifestContent(th) ==
    /\ tpc[th] = "content"
    /\ requestLog' = requestLog \cup {Sent(th)}
    /\ Returns(th)
    /\ UNCHANGED <<clock, lastRequestTime, gateLog, gateCalls>>
    /\ UNCHANGED notGate

GateInit ==
    /\ LifecycleIdle
    /\ clock = Epoch
    /\ ReceiverIdle
    /\ FlaskIdle
    /\ FetchIdle
    /\ GateIdle
    /\ BoundaryIdle
    /\ UtilityIdle

GateNext ==
    \/ GateTick
    \/ \E th \in Flows : CallSite(th)
    \/ \E th \in Flows : GateReadTime(th)
    \/ \E th \in Flows : GateCheck(th)
    \/ \E th \in Flows : GateWake(th)
    \/ \E th \in Flows : GateStamp(th)
    \/ \E th \in Flows : GatedRequest(th)
    \/ \E th \in Flows : ManifestMetadata(th)
    \/ \E th \in Flows : ManifestContent(th)

SpecGate == GateInit /\ [][GateNext]_vars

\* ======================= bungie.py: the profile cache and the other operations =======================
\* load_cached_profile, load_token, ensure_authenticated and test_api_connection,
\* each as one step from the call to the return.

MaxAgeing == 2

\* `max_age = 24 * 60 * 60`
MaxAgeSeconds == 24 * 60 * 60

\* a file whose JSON text breaks off: a write that did not finish
TruncatedFile == [text |-> "{"]

\* json.load(f) parses the file
IsJson(content) == ~HasKey(content, "text")

ResultNone == [kind |-> "none", value |-> "", payload |-> None]
ResultToken(tok) == [kind |-> "token", value |-> tok, payload |-> None]
ResultBool(b) == [kind |-> "bool", value |-> IF b THEN "True" ELSE "False", payload |-> None]
ResultProfile(p) == [kind |-> "profile", value |-> "", payload |-> Some(p)]
ResultRaised(exception) == [kind |-> "raised", value |-> exception, payload |-> None]

ExceptNothing(r, fallback) == r

\* `except Exception: return fallback` around a body that ended as r
ExceptException(r, fallback) == IF r.kind = "raised" THEN fallback ELSE r

CacheExpiredAtLimit(age) == age >= Tenths(MaxAgeSeconds)

\* `time.time() - cached_at > max_age`
CacheExpired(age) == age > Tenths(MaxAgeSeconds)

\* the `try` block of load_cached_profile at time t
LoadCachedProfileBody(file, t) ==
    IF file = NoFile THEN ResultNone
    ELSE IF ~IsJson(file[1]) THEN ResultRaised("JSONDecodeError")
    ELSE IF CacheExpired(t - SessionGet(file[1], "cached_at", 0)) THEN ResultNone
    ELSE IF HasKey(file[1], "profile") THEN ResultProfile(file[1].profile)
    ELSE ResultNone

load_cached_profile(file, t) == ExceptException(LoadCachedProfileBody(file, t), ResultNone)

CacheAfterLoadDroppingStale(file, t) ==
    IF file # NoFile /\ LoadCachedProfileBody(file, t) = ResultNone THEN NoFile ELSE file

\* the cache file after load_cached_profile: it is only opened for reading
CacheAfterLoad(file, t) == file

\* ensure_authenticated, from what its load_token() call gave
ensure_authenticated(loaded) ==
    ExceptException(IF loaded.kind = "raised" THEN loaded ELSE ResultBool(loaded.kind = "token"),
                    ResultBool(FALSE))

\* load_token or ensure_authenticated, from what load_token's body gave
LoadTokenResult(name, r) ==
    IF name = "ensure_authenticated" THEN ensure_authenticated(ExceptException(r, ResultNone))
    ELSE ExceptException(r, ResultNone)

\* test_api_connection, from the answer to its request
test_api_connection(resp) ==
    ExceptException(IF resp.kind = "response" THEN ResultBool(resp.status = 200)
                    ELSE ResultRaised(resp.kind),
                    ResultBool(FALSE))

fetchCallVars == <<fpc, retryAttempts, attempt, token, fResult, attemptLog, gateSleeps,
                   tokenFailed, cacheWrites, cacheAtCall>>

notBoundary == <<callVars, receiverVars, flaskVars, gateVars, fetchCallVars, utilityVars>>

\* no operation is under way and none has been called
Uncalled == bop = "none" /\ fpc = "idle"

LoadCachedProfile ==
    /\ Uncalled
    /\ bop' = "load_cached_profile"
    /\ loadedAt' = clock
    /\ bResult' = load_cached_profile(profileCache, clock)
    /\ profileCache' = CacheAfterLoad(profileCache, clock)
    /\ UNCHANGED <<env, sessionFile, clock, lastRequestTime, authStarts, lastStore>>
    /\ UNCHANGED notBoundary

\* load_token() called directly, or by ensure_authenticated()
BungieLoadToken(name) ==
    /\ Uncalled
    /\ bop' = name
    /\ IF sessionFile # NoFile /\ SessionGet(sessionFile[1], "access_token", "") # ""
       THEN \* the stored token, unless it has expired
            /\ bResult' = LoadTokenResult(name,
                    IF BungieTokenExpired(sessionFile[1], clock) THEN ResultNone
                    ELSE ResultToken(sessionFile[1].access_token))
            /\ UNCHANGED <<sessionFile, clock, lastRequestTime, authStarts>>
       ELSE IF BUNGIE_CLIENT_ID = "" \/ BUNGIE_CLIENT_SECRET = ""
       THEN \* prompt_for_oauth_token raises ValueError
            /\ bResult' = LoadTokenResult(name, ResultRaised("ValueError"))
            /\ UNCHANGED <<sessionFile, clock, lastRequestTime, authStarts>>
       ELSE \* prompt_for_oauth_token: the interactive flow
            /\ authStarts' = authStarts + 1
            /\ \/ \* get_auth_code raises
                  /\ bResult' = LoadTokenResult(name, ResultRaised("TimeoutError"))
                  /\ UNCHANGED <<sessionFile, clock, lastRequestTime>>
               \/ \* the code is exchanged: _rate_limit(), requests.post
                  \E d \in Latencies : \E tok \in ExchangeAnswers :
                    LET g == RateLimit(clock, lastRequestTime)
                    IN  /\ lastRequestTime' = g.now
                        /\ clock' = g.now + d
                        /\ IF tok \in FreshTokens
                           THEN /\ sessionFile' = Some(SavedTokenAt(tok, clock'))
                                /\ bResult' = LoadTokenResult(name, ResultToken(tok))
                           ELSE /\ bResult' = LoadTokenResult(name,
                                        ResultRaised(IF tok = "" THEN "ValueError"
                                                     ELSE "RequestException"))
                                /\ UNCHANGED sessionFile
    /\ UNCHANGED <<env, profileCache, lastStore, loadedAt>>
    /\ UNCHANGED notBoundary

\* the answers to the request of test_api_connection
ProbeAnswers == {HttpResponse(200, EmptyDict, None), HttpResponse(503, EmptyDict, None),
                 RequestFailure("timeout")}

TestApiConnection ==
    /\ Uncalled
    /\ bop' = "test_api_connection"
    /\ \E d \in Latencies : \E resp \in ProbeAnswers :
        LET g == RateLimit(clock, lastRequestTime)
        IN  /\ lastRequestTime' = g.now
            /\ clock' = g.now + d
            /\ bResult' = test_api_connection(resp)
    /\ UNCHANGED <<env, sessionFile, profileCache, authStarts, lastStore, loadedAt>>
    /\ UNCHANGED notBoundary

\* how the write of _cache_profile ends: the file is written, open() fails,
\* or json.dump breaks off after open() has emptied the file
WriteOutcomes == {"written", "failed", "truncated"}

\* the 200 branch of fetch_profile with a body that passes the validation:
\* _cache_profile(body) and `return body`
FetchSucceeds ==
    /\ Uncalled
    /\ bop' = "fetch_profile"
    /\ \E body \in {Some(ProfilePayload), Some(SparsePayload)} : \E w \in WriteOutcomes :
        /\ bResult' = ResultProfile(On200(body).result.payload[1])
        /\ profileCache' = CASE w = "written" -> Some(CacheEntry(On200(body).cache[1], clock))
                             [] w = "failed" -> profileCache
                             [] w = "truncated" -> Some(TruncatedFile)
        /\ lastStore' = CASE w = "written" -> Some(CacheEntry(On200(body).cache[1], clock))
                          [] w = "failed" -> lastStore
                          [] w = "truncated" -> None
    /\ UNCHANGED <<env, sessionFile, clock, lastRequestTime, authStarts, loadedAt>>
    /\ UNCHANGED notBoundary

\* the caller has the result; the next operation can be called
BoundaryReturn ==
    /\ bop # "none"
    /\ bop' = "none"
    /\ bResult' = Unreturned
    /\ loadedAt' = 0
    /\ UNCHANGED <<env, sessionFile, clock, lastRequestTime, profileCache, authStarts,
                   lastStore>>
    /\ UNCHANGED notBoundary

\* the times looked at: the first moments, and the moments a day after them
Instants ==
    {Epoch + k : k \in 0..MaxAgeing} \cup {Epoch + Tenths(MaxAgeSeconds) + k : k \in 0..MaxAgeing}

\* time passes between two operations: a moment, or about a day
CacheTimePasses ==
    /\ bop = "none"
    /\ \E t \in Instants :
        /\ t > clock
        /\ clock' = t
    /\ UNCHANGED <<env, sessionFile, lastRequestTime, profileCache, authStarts, boundaryVars>>
    /\ UNCHANGED notBoundary

\* a cache file without a time: written by another version of the program
UndatedCacheEntry == [profile |-> SparsePayload, cache_version |-> CacheVersion]

CacheInit ==
    /\ LifecycleIdle
    /\ clock = Epoch
    /\ ReceiverIdle
    /\ FlaskIdle
    /\ lastRequestTime = 0
    /\ profileCache \in {NoFile, Some(TruncatedFile), Some(UndatedCacheEntry)}
    /\ FetchCallIdle
    /\ GateIdle
    /\ BoundaryIdle
    /\ UtilityIdle

CacheNext ==
    \/ FetchSucceeds
    \/ LoadCachedProfile
    \/ BoundaryReturn
    \/ CacheTimePasses

SpecCache == CacheInit /\ [][CacheNext]_vars

\* ---- every operation of the interface, one call of one of them
BoundarySessions == {NoFile, Some(TruncatedFile)} \cup {Some(s) : s \in FetchSessions}

BoundaryInit ==
    /\ env \in FetchEnvs
    /\ sessionFile \in BoundarySessions
    /\ CallIdle
    /\ clock = Epoch
    /\ ReceiverIdle
    /\ FlaskIdle
    /\ lastRequestTime = 0
    /\ profileCache \in {NoFile, Some(StaleCacheEntry), Some(TruncatedFile)}
    /\ FetchCallIdle
    /\ GateIdle
    /\ BoundaryIdle
    /\ UtilityIdle

BoundaryNext ==
    \/ bop = "none" /\ FetchNext
    \/ LoadCachedProfile
    \/ BungieLoadToken("load_token")
    \/ BungieLoadToken("ensure_authenticated")
    \/ TestApiConnection

SpecBoundary == BoundaryInit /\ [][BoundaryNext]_vars

\* ======================= properties =======================

InGetAccessToken == op = "get_access_token"
InLoadToken == op = "load_token"

\* the session file held a session when the operation was entered
Stored == fileAtCall # NoFile
StoredHas(k) == Stored /\ HasKey(fileAtCall[1], k)

\* the configuration get_access_token needs, read off the environment
Configured == env.BUNGIE_API_KEY # "" /\ env.BUNGIE_CLIENT_ID # ""

NoInteraction == browserOpens = 0 /\ listenerStarts = 0
AuthorizationUnderWay ==
    /\ pc \in {"authorizing", "waiting", "exchanging", "done"}
    /\ pc # "authorizing" => browserOpens = 1
    /\ pc \in {"waiting", "exchanging"} => listenerStarts = 1

\* C1: with test mode off and a valid configuration, a stored session with
\* now < expires_at makes get_access_token return that session's access_token,
\* with no token-endpoint request, no browser launch, no listener start and no
\* write of the session file.
C1_ValidSessionUsedAsIs ==
    (InGetAccessToken /\ ~TestModeOn /\ Configured
        /\ StoredHas("expires_at") /\ tCheck < fileAtCall[1].expires_at)
    => /\ pc = "done"
       /\ result = Returned(fileAtCall[1].access_token)
       /\ tokenPosts = 0
       /\ NoInteraction
       /\ sessionWrites = 0
       /\ sessionFile = fileAtCall

C1_Witness ==
    /\ InGetAccessToken /\ ~TestModeOn /\ Configured
    /\ StoredHas("expires_at") /\ tCheck < fileAtCall[1].expires_at
    /\ StoredHas("refresh_token")
    /\ result = Returned("A0")

\* C2, as stated: after a 200 answer to the refresh request the session is
\* persisted with expires_at = now + expires_in - 10 and the new tokens, and
\* get_access_token returns the refreshed access_token, for every expires_in,
\* without starting interactive authorization.
C2_RefreshAlwaysReturnsRefreshedToken ==
    (InGetAccessToken /\ refreshOutcome = "ok")
    => /\ pc \in {"refreshed", "done"}
       /\ NoInteraction
       /\ sessionFile = Some(session[1])
       /\ session[1].access_token = lastResp.access_token
       /\ session[1].expires_at = lastResp.at + lastResp.expires_in - 10
       /\ pc = "done" => result = Returned(lastResp.access_token)

\* C2, amended: after a 200 answer to the refresh request the session is
\* persisted with expires_at = now + expires_in - 10 and the new tokens (its
\* other keys kept); get_access_token returns the refreshed access_token
\* without interactive authorization exactly when the clock it then reads is
\* still below that expires_at, and otherwise goes on to interactive
\* authorization.
C2_RefreshPersistsAndReturnsIfUnexpired ==
    (InGetAccessToken /\ refreshOutcome = "ok")
    => /\ StoredHas("refresh_token")
       /\ DOMAIN session[1] = DOMAIN fileAtCall[1] \cup {"expires_at"}
       /\ \A k \in DOMAIN fileAtCall[1] \ {"access_token", "refresh_token", "expires_at"} :
              session[1][k] = fileAtCall[1][k]
       /\ pc = "refreshed" =>
              /\ sessionFile = Some(session[1])
              /\ sessionWrites = 1
              /\ session[1].access_token = lastResp.access_token
              /\ session[1].refresh_token = lastResp.refresh_token
              /\ session[1].expires_at = lastResp.at + lastResp.expires_in - 10
              /\ NoInteraction
       /\ pc # "refreshed" =>
              IF tRecheck < session[1].expires_at
              THEN /\ pc = "done"
                   /\ result = Returned(session[1].access_token)
                   /\ result = Returned(lastResp.access_token)
                   /\ sessionFile = Some(session[1])
                   /\ NoInteraction
              ELSE AuthorizationUnderWay

C2_Witness ==
    /\ InGetAccessToken /\ refreshOutcome = "ok"
    /\ pc = "done"
    /\ result = Returned(lastResp.access_token)
    /\ NoInteraction
    /\ lastResp.expires_in = 13
    /\ tRecheck > lastResp.at

\* C3: when the stored session is expired and the refresh request fails (a
\* non-200 answer or a network error), get_access_token goes on, in the same
\* call, to interactive authorization; while the refresh request is in flight
\* no browser or listener has been started, and a call that found a refresh
\* token starts them only after the refresh was attempted.
C3_FailedRefreshFallsThroughToAuthorize ==
    /\ (InGetAccessToken /\ refreshOutcome \in {"http_error", "network_error"})
       => /\ AuthorizationUnderWay
          /\ pc = "authorizing" => ENABLED AuthorizeStart
          /\ pc # "done" => sessionFile = fileAtCall /\ sessionWrites = 0
    /\ (InGetAccessToken /\ pc = "refreshing") => NoInteraction
    /\ (InGetAccessToken /\ sessionReads = 1 /\ StoredHas("refresh_token") /\ ~NoInteraction)
       => refreshOutcome # "none"

C3_Witness ==
    /\ InGetAccessToken
    /\ refreshOutcome = "network_error"
    /\ pc = "waiting"
    /\ browserOpens = 1

\* C4: starting with no session file, once the callback wait has delivered a
\* code and the token endpoint has answered 200 with {access_token,
\* refresh_token, expires_in}, the persisted session holds the returned
\* access_token and expires_at = now + expires_in - 10, and get_access_token
\* returns that access_token.
C4_AuthorizePersistsSession ==
    (InGetAccessToken /\ ~Stored /\ lastResp # NoResp)
    => /\ pc = "done"
       /\ result = Returned(lastResp.access_token)
       /\ sessionFile # NoFile
       /\ HasKey(sessionFile[1], "expires_at")
       /\ sessionFile[1].access_token = lastResp.access_token
       /\ sessionFile[1].refresh_token = lastResp.refresh_token
       /\ sessionFile[1].expires_at = lastResp.at + lastResp.expires_in - 10
       /\ sessionWrites = 1
       /\ browserOpens = 1

C4_Witness ==
    /\ InGetAccessToken /\ ~Stored /\ lastResp # NoResp
    /\ pc = "done"
    /\ result = Returned("A2")
    /\ lastResp.at > 1

Complete(s) == HasKey(s, "access_token") /\ HasKey(s, "expires_at")
AuthFailures == {"timeout", "provider_error", "exchange_http", "exchange_network"}

\* C5: when get_access_token ends in failure (callback timeout, provider error
\* redirect, non-200 token exchange, network error during the exchange), the
\* failed authorization wrote nothing to the session file: the file is what the
\* call found, or the complete session a successful refresh of this call
\* saved; so a file that was absent or complete is still absent or complete.
C5_FailureLeavesNoPartialSession ==
    (InGetAccessToken /\ pc = "done" /\ result.kind = "raise" /\ result.value \in AuthFailures)
    => /\ browserOpens = 1
       /\ IF refreshOutcome = "ok"
          THEN sessionFile = Some(session[1]) /\ Complete(session[1]) /\ sessionWrites = 1
          ELSE sessionFile = fileAtCall /\ sessionWrites = 0
       /\ (~Stored \/ Complete(fileAtCall[1]))
          => (sessionFile = NoFile \/ Complete(sessionFile[1]))

C5_Witness ==
    /\ InGetAccessToken /\ pc = "done"
    /\ result = Raised("exchange_http")
    /\ Stored
    /\ sessionFile = fileAtCall

\* C6: a stored session that lacks expires_at is treated as already expired by
\* every token-validity check (get_access_token and bungie.load_token): its
\* access_token is never returned as a valid token (stated with test mode off,
\* where the stored session decides the result).
C6_MissingExpiryNeverValid ==
    ((InGetAccessToken \/ InLoadToken) /\ pc = "done" /\ ~TestModeOn
        /\ Stored /\ ~HasKey(fileAtCall[1], "expires_at"))
    => result # Returned(fileAtCall[1].access_token)

\* C7: a stored session is accepted as valid if and only if now < expires_at;
\* at now = expires_at neither get_access_token nor bungie.load_token returns
\* the stored token (stated with test mode off, and for get_access_token with
\* a valid configuration, where the stored session decides the result).
C7_ValidIffNowBeforeExpiry ==
    (pc = "done" /\ StoredHas("expires_at") /\ ~TestModeOn
        /\ (InLoadToken \/ (InGetAccessToken /\ Configured)))
    => (result = Returned(fileAtCall[1].access_token)
            <=> tCheck < fileAtCall[1].expires_at)

\* C8: with RAIDASSIST_TEST_MODE = "true", get_access_token returns the
\* sentinel token (TEST_TOKEN, "test_token" when unset) whatever the session
\* file and the configuration are, with no session read or write, no request,
\* no browser launch and no listener start.
C8_TestModeReturnsSentinel ==
    (InGetAccessToken /\ env.RAIDASSIST_TEST_MODE = "true")
    => /\ pc = "done"
       /\ result = Returned(IF env.TEST_TOKEN = "" THEN "test_token" ELSE env.TEST_TOKEN)
       /\ sessionReads = 0
       /\ sessionWrites = 0
       /\ sessionFile = fileAtCall
       /\ tokenPosts = 0
       /\ NoInteraction

C8_Witness ==
    /\ InGetAccessToken /\ env.RAIDASSIST_TEST_MODE = "true"
    /\ env.TEST_TOKEN = "tt"
    /\ ~Configured
    /\ StoredHas("refresh_token") /\ ~HasKey(fileAtCall[1], "expires_at")
    /\ result = Returned("tt")

\* C9: in test mode bungie.load_token returns the configured TEST_TOKEN whether
\* or not a session file exists, without starting an OAuth flow.
C9_LoadTokenTestMode ==
    (InLoadToken /\ env.RAIDASSIST_TEST_MODE = "true")
    => /\ pc = "done"
       /\ result = Returned(IF env.TEST_TOKEN = "" THEN "test_token" ELSE env.TEST_TOKEN)
       /\ NoInteraction

\* C10: with test mode off and the API key or the client identifier missing,
\* get_access_token fails with a configuration error before any request: no
\* token-endpoint request, no browser launch, no listener start in that call.
C10_ConfigurationErrorBeforeAnyRequest ==
    (InGetAccessToken /\ env.RAIDASSIST_TEST_MODE # "true" /\ ~Configured)
    => /\ pc = "done"
       /\ result = Raised("config")
       /\ tokenPosts = 0
       /\ NoInteraction
       /\ sessionFile = fileAtCall

C10_Witness ==
    /\ InGetAccessToken /\ env.RAIDASSIST_TEST_MODE # "true"
    /\ env.BUNGIE_API_KEY # "" /\ env.BUNGIE_CLIENT_ID = ""
    /\ StoredHas("refresh_token")
    /\ result = Raised("config")

\* ---- the callback receiver of oauth.py

\* the calling thread is inside wait_for_code, its listener started
Waiting == wpc \in {"loop", "test_time", "sleep", "stop", "stop_timed_out"}

\* wait_for_code has ended after its listener had started
WaitEnded == wpc = "done" /\ wOutcomes # {"bind_error"}

Elapsed == clock - wStart

C13_WaitTerminates ==
    /\ [](Waiting => Elapsed <= wTimeout + PollInterval)
    /\ []((WaitEnded /\ "timeout" \in wOutcomes) =>
            (Elapsed > wTimeout /\ Elapsed <= wTimeout + PollInterval))
    /\ []((WaitEnded /\ wQuiet) => wOutcomes = {"timeout"})
    /\ (Waiting ~> wpc = "done")

\* nothing arrived, and the timeout was raised a full polling interval after
\* the timeout had elapsed
C13_Witness ==
    /\ WaitEnded /\ wQuiet /\ wOutcomes = {"timeout"}
    /\ wTimeout > 0 /\ Elapsed = wTimeout + PollInterval

\* ---- the callback receiver of auth_server.py

\* flow f is inside get_auth_code's wait
GacWaiting(f) == gpc[f] \in {"loop", "sleep", "after"}

\* flow f's get_auth_code has returned or raised, and no other flow is in one
GacEndedAlone(f) == gpc[f] = "done" /\ \A g \in Flows \ {f} : gpc[g] = "idle"

\* C12: when get_auth_code has returned or raised (code, error or timeout), no
\* listener serves the callback port any more: the port is free for the next
\* authorization attempt.
C12_ListenerTornDown ==
    \A f \in Flows : GacEndedAlone(f) => ~flaskServing

\* C14: two flows never wait on the receiver at the same time, and no code is
\* returned to two flows.
C14_OneFlowAtATime ==
    \A f \in Flows : \A g \in Flows \ {f} :
        /\ ~(GacWaiting(f) /\ GacWaiting(g))
        /\ ~(gOutcome[f].kind = "code" /\ gOutcome[g].kind = "code"
             /\ gOutcome[f].value = gOutcome[g].value)

\* ---- fetch_profile

\* the i-th request of the call: its attempt index, its answer, its backoff sleep
Status(i) == attemptLog[i].resp.status
Body(i) == attemptLog[i].resp.body
AttemptOf(i) == attemptLog[i].attempt
Requests == 1..Len(attemptLog)

\* the i-th request was not made by the last attempt
NotLast(i) == AttemptOf(i) < retryAttempts - 1

\* after the i-th request the loop went on to the next attempt
Retried(i) == attempt > AttemptOf(i)

\* the i-th request ended the call with a failure
FailedAt(i) ==
    i = Len(attemptLog) /\ fpc = "done" /\ fResult.kind = "none" /\ attempt = AttemptOf(i)

\* the body is JSON with a top-level Response object
HasResponseObject(body) ==
    /\ body # None
    /\ IsDict(body[1])
    /\ HasKey(body[1].members, "Response")
    /\ IsDict(body[1].members["Response"])

\* C15: once load_token has returned nothing in an attempt, fetch_profile has
\* returned None: it made no request in that attempt (the requests made are
\* those of the earlier attempts, one each), slept no more, and did not go on
\* to an attempt that remained.
C15_NoTokenFailsImmediately ==
    tokenFailed =>
        /\ fpc = "done"
        /\ fResult = FetchNone("no_token")
        /\ attempt < retryAttempts
        /\ Len(attemptLog) = attempt
        /\ \A i \in Requests : AttemptOf(i) = i - 1
        /\ gateSleeps <= attempt

\* after a 401 the new authorization failed: the call ended in the second of
\* three attempts, with one request made
C15_Witness ==
    /\ tokenFailed /\ fpc = "done"
    /\ retryAttempts = 3 /\ attempt = 1
    /\ Len(attemptLog) = 1 /\ Status(1) = 401

NumericRetryAfter(i) ==
    \/ ~HasKey(attemptLog[i].resp.headers, "Retry-After")
    \/ attemptLog[i].resp.headers["Retry-After"] = "2"

\* the seconds that header asks for
AskedRetryAfter(i) ==
    IF HasKey(attemptLog[i].resp.headers, "Retry-After") THEN 2 ELSE 60

BackoffSleeps ==
    LET RECURSIVE from(_)
        from(i) == IF i > Len(attemptLog) THEN <<>>
                   ELSE attemptLog[i].slept \o from(i + 1)
    IN  from(1)

Kind(i) == attemptLog[i].resp.kind

\* the i-th request was answered with a status outside 2xx that has no rule
\* of its own
OtherNon2xx(i) ==
    /\ Kind(i) = "response"
    /\ ~(Status(i) >= 200 /\ Status(i) < 300)
    /\ Status(i) \notin {401, 429, 503}

\* C21: an answer with a non-2xx status other than 401, 429 and 503 ends the
\* call: it is the last request of the call and no backoff sleep follows it,
\* whatever attempts remain.
C21_OtherStatusIsFatal ==
    \A i \in Requests :
        OtherNon2xx(i) =>
            /\ i = Len(attemptLog)
            /\ fpc = "done"
            /\ attemptLog[i].slept = None

\* C22: a timeout at attempt a, not the last, is followed by a sleep of
\* 2*(a+1) seconds and by the next attempt; a connection error by a sleep of
\* 5*(a+1) seconds and the next attempt.  Either of them on the last attempt
\* ends the call with a failure and without a sleep.
C22_NetworkErrorsBackOff ==
    \A i \in Requests :
        Kind(i) \in {"timeout", "connection_error"} =>
            LET seconds == IF Kind(i) = "timeout" THEN 2 * (AttemptOf(i) + 1)
                           ELSE 5 * (AttemptOf(i) + 1)
            IN  IF NotLast(i)
                THEN /\ attemptLog[i].slept = Some(seconds)
                     /\ Retried(i)
                     /\ (i = Len(attemptLog) /\ fpc = "attempt") =>
                            clock - lastRequestTime >= Tenths(seconds)
                ELSE /\ attemptLog[i].slept = None
                     /\ FailedAt(i)

\* a timeout, then a connection error, then a timeout on the last attempt
C22_Witness ==
    /\ fpc = "done" /\ retryAttempts = 3 /\ Len(attemptLog) = 3
    /\ Kind(1) = "timeout" /\ Kind(2) = "connection_error" /\ Kind(3) = "timeout"
    /\ BackoffSleeps = <<2, 10>>
    /\ fResult = FetchNone("timeout")

\* fetch_profile has been called and has not returned
Fetching == fpc \in {"attempt", "request"}

\* an attempt was answered 200 with a body that passed the validation
ValidAnswer == \E i \in Requests : Status(i) = 200 /\ HasResponseObject(Body(i))

\* the requests and the result of a call that may sleep at most `sleeps` times
FetchBounded(sleeps) ==
    fpc # "idle" =>
        /\ Len(attemptLog) <= retryAttempts
        /\ Len(BackoffSleeps) <= sleeps
        /\ (fpc = "done" /\ ~ValidAnswer) => fResult.kind = "none"

\* C23, as stated: for every retry_attempts >= 0 the call ends, having made at
\* most retry_attempts requests and at most retry_attempts - 1 backoff sleeps,
\* and returns None when no attempt produced a valid 200.
C23_AtMostRetriesMinusOneSleeps ==
    /\ [](FetchBounded(retryAttempts - 1))
    /\ Fetching ~> (fpc = "done")

\* C23: for every retry_attempts >= 0 the call ends, having made at most
\* retry_attempts requests and at most retry_attempts - 1 backoff sleeps (none
\* when retry_attempts is 0), and returns None when no attempt produced a
\* valid 200.
C23_FetchTerminatesBounded ==
    /\ [](FetchBounded(IF retryAttempts > 0 THEN retryAttempts - 1 ELSE 0))
    /\ Fetching ~> (fpc = "done")

\* three attempts, all answered 503: three requests, two sleeps, None
C23_Witness ==
    /\ fpc = "done" /\ retryAttempts = 3 /\ Len(attemptLog) = 3
    /\ \A i \in Requests : Status(i) = 503
    /\ Len(BackoffSleeps) = 2
    /\ fResult.kind = "none"

\* C30: within one call of fetch_profile interactive authorization is started
\* at most once, for every sequence of answers and every retry_attempts.
C30_AuthorizationStartedAtMostOnce == authStarts <= 1

GatePasses == 1..Len(gateLog)

\* the i-th pass through the gate began after the pass before it had ended
Sequential(i) == i > 1 /\ gateLog[i].seen = i - 1

\* the time between the i-th value stored in LAST_REQUEST_TIME and the one before
GateGap(i) == gateLog[i].at - gateLog[i - 1].at

\* C25: when a call of _rate_limit begins after the call before it has ended,
\* the times the two have stored in LAST_REQUEST_TIME are at least
\* MIN_REQUEST_INTERVAL apart.
C25_SequentialCallsSpaced ==
    \A i \in GatePasses : Sequential(i) => GateGap(i) >= MinRequestInterval

\* a second call that began in the same tenth of a second slept for the interval
C25_Witness ==
    \E i \in GatePasses :
        /\ Sequential(i)
        /\ gateLog[i].slept = MinRequestInterval
        /\ GateGap(i) = MinRequestInterval

\* C26: in every interleaving of the two threads, the times stored in
\* LAST_REQUEST_TIME by passes that follow one another are at least
\* MIN_REQUEST_INTERVAL apart, and so are the requests behind them.
C26_ConcurrentCallsSpaced ==
    \A i \in GatePasses : i > 1 => GateGap(i) >= MinRequestInterval

\* C27: every request sent to the external API, at every call site, was
\* sent after the sending thread had passed through _rate_limit.
C27_EveryRequestGated ==
    \A r \in requestLog : r.gated

\* load_cached_profile has returned, and the cache file is the one the last
\* _cache_profile wrote
LoadedAfterStore ==
    /\ bop = "load_cached_profile"
    /\ lastStore # None
    /\ profileCache = lastStore

\* the age of that entry when load_cached_profile read the time
AgeAtLoad == loadedAt - lastStore[1].cached_at

\* C28: after _cache_profile has stored X at time t, load_cached_profile at
\* time now returns X when now - t <= 24 h and None when now - t > 24 h.
C28_CacheRoundTrip ==
    LoadedAfterStore =>
        IF AgeAtLoad <= Tenths(MaxAgeSeconds)
        THEN bResult = ResultProfile(lastStore[1].profile)
        ELSE bResult = ResultNone

\* an entry read exactly 24 h after it was stored is still returned
C28_Witness ==
    /\ LoadedAfterStore
    /\ AgeAtLoad = Tenths(MaxAgeSeconds)
    /\ bResult = ResultProfile(ProfilePayload)

\* C29: load_cached_profile leaves the cache file as it is, whatever it
\* returns; the file changes only in a fetch that got a valid 200.
C29_LoadLeavesCacheFile ==
    [][ /\ (bop = "none" /\ bop' = "load_cached_profile") => profileCache' = profileCache
        /\ profileCache' # profileCache => (bop' = "fetch_profile" /\ bResult'.kind = "profile")
      ]_vars

\* a stored entry older than 24 h was read: None, and the file is still there
C29_Witness ==
    /\ LoadedAfterStore
    /\ AgeAtLoad > Tenths(MaxAgeSeconds)
    /\ bResult = ResultNone
    /\ profileCache # NoFile

\* what each operation may hand to its caller
ResultKinds(name) ==
    CASE name = "load_token" -> {"token", "none"}
      [] name = "load_cached_profile" -> {"profile", "none"}
      [] name \in {"ensure_authenticated", "test_api_connection"} -> {"bool"}

\* C24: fetch_profile, load_token, load_cached_profile, ensure_authenticated
\* and test_api_connection return a value (a payload, a token, a bool, None)
\* and raise nothing, whatever the token acquisition, the network and the
\* files on disk do.
C24_NoFaultPropagates ==
    /\ fpc = "done" => fResult.kind \in {"profile", "none"}
    /\ bop # "none" => bResult.kind \in ResultKinds(bop)

\* ensure_authenticated with no stored token and no client secret: False
C24_Witness ==
    /\ bop = "ensure_authenticated"
    /\ sessionFile = Some(TruncatedFile)
    /\ BUNGIE_CLIENT_SECRET = ""
    /\ bResult = ResultBool(FALSE)

\* the i-th answer is a 200 whose body is JSON without a top-level Response
\* object: not an object, no "Response" member, or a Response that is no object
NoResponseObject(i) ==
    Status(i) = 200 /\ Body(i) # None /\ ~HasResponseObject(Body(i))

\* C36: a 200 answer whose JSON has no top-level Response object ends the
\* call with None: it is the last request of the call, although attempts may
\* remain, and the cache file is the one the call found.
C36_InvalidResponseFails ==
    \A i \in Requests :
        NoResponseObject(i) =>
            /\ i = Len(attemptLog)
            /\ fpc = "done"
            /\ fResult = FetchNone("invalid_response")
            /\ attempt = AttemptOf(i)
            /\ cacheWrites = 0
            /\ profileCache = cacheAtCall

\* the second of three attempts was answered {"Response": "none"}: the call
\* ended there and the cache of an earlier run is still in place
C36_Witness ==
    /\ fpc = "done" /\ retryAttempts = 3 /\ attempt = 1
    /\ Len(attemptLog) = 2 /\ Status(2) = 200
    /\ Body(2) = Some(ScalarResponsePayload)
    /\ fResult.kind = "none"
    /\ profileCache = Some(StaleCacheEntry)

\* C39: a fetch_profile call that returned None left the cache file as it was
\* when the call began, whatever the answers to its requests were.
C39_FailedFetchLeavesCache ==
    (fpc = "done" /\ fResult.kind = "none") =>
        /\ profileCache = cacheAtCall
        /\ cacheWrites = 0

\* three requests (401, 503, then a 200 without a Response object) and a
\* None result: the cache of an earlier run is unchanged
C39_Witness ==
    /\ fpc = "done" /\ fResult.kind = "none"
    /\ Len(attemptLog) = 3
    /\ Status(1) = 401 /\ Status(2) = 503 /\ Status(3) = 200
    /\ Body(3) = Some(ErrorPayload)
    /\ cacheAtCall = Some(StaleCacheEntry)
    /\ profileCache = cacheAtCall

\* C38: whenever wait_for_code is entered (its listener bound and started),
\* OAuthHandler._code and OAuthHandler._error are both None, so that a result
\* recorded during an earlier call cannot be the result of this one.
C38_EnteredWithNothingRecorded ==
    [][(WaitForCode /\ listener = "none") =>
            (handlerCode = None /\ handlerError = None)]_vars

\* ======================= utils/logging_manager.py: log_context =======================
\* logger_manager is one object for the whole process, and its context_stack
\* one list: the window's thread and the background threads (DataRefreshThread
\* in ui/interface.py, the server thread of auth_server.run_auth_server) open
\* their log_context blocks on it.  list.append and list.pop are atomic.

MaxBlocks == 3
MaxDepth == 2

LogContexts == {"oauth_flow", "auth_server_startup"}

\* everything but the utilities
programVars == <<lifecycleVars, clock, receiverVars, flaskVars, fetchVars, gateVars,
                 boundaryVars>>

\* RaidAssistLogger.push_context
push_context(stack, context) == Append(stack, context)

\* RaidAssistLogger.pop_context
pop_context(stack) ==
    IF stack # <<>> THEN SubSeq(stack, 1, Len(stack) - 1) ELSE stack

\* LogContext.__enter__, on thread th
notLog == <<programVars, safeVars, pkceVars, storeVars>>

LogContextEnter(th) ==
    /\ lcEntered < MaxBlocks
    /\ Len(lcBlocks[th]) < MaxDepth
    /\ \E context \in LogContexts :
        /\ context_stack' = push_context(context_stack, context)
        /\ lcBlocks' = [lcBlocks EXCEPT ![th] =
                            Append(@, [context |-> context, entry |-> context_stack])]
    /\ lcExited' = [lcExited EXCEPT ![th] = None]
    /\ lcEntered' = lcEntered + 1
    /\ UNCHANGED notLog

\* LogContext.__exit__, on thread th: the block's body has returned or raised;
\* __exit__ returns None, so an exception goes on to the caller
LogContextExit(th) ==
    /\ lcBlocks[th] # <<>>
    /\ \E raised \in BOOLEAN :
        LET block == lcBlocks[th][Len(lcBlocks[th])]
        IN  /\ context_stack' = pop_context(context_stack)
            /\ lcExited' = [lcExited EXCEPT ![th] =
                                Some([context |-> block.context, entry |-> block.entry,
                                      raised |-> raised, left |-> context_stack'])]
    /\ lcBlocks' = [lcBlocks EXCEPT ![th] = SubSeq(@, 1, Len(@) - 1)]
    /\ UNCHANGED lcEntered
    /\ UNCHANGED notLog

LogInit ==
    /\ LifecycleIdle
    /\ clock = 0
    /\ ReceiverIdle
    /\ FlaskIdle
    /\ FetchIdle
    /\ GateIdle
    /\ BoundaryIdle
    /\ UtilityIdle

LogNext ==
    \/ \E th \in Flows : LogContextEnter(th)
    \/ \E th \in Flows : LogContextExit(th)

SpecLog == LogInit /\ [][LogNext]_vars

OnStack(context) == \E i \in 1..Len(context_stack) : context_stack[i] = context

\* C35: while a thread is inside a log_context(c) block, c is on the logger's
\* context stack; and when a block has been left, by return or by exception,
\* the stack is again what it was when the block was entered.
C35_ContextStackBalanced ==
    \A th \in Flows :
        /\ \A i \in 1..Len(lcBlocks[th]) : OnStack(lcBlocks[th][i].context)
        /\ lcExited[th] # None => lcExited[th][1].left = lcExited[th][1].entry

\* ======================= utils/error_handler.py: safe_execute =======================
\* A call safe_execute(func, context=..., default_return=d), func called
\* without arguments.  error_handler.handle_exception records the error
\* (error_history), logs it and notifies the user; these do not raise.

MaxSafeCalls == 2

\* what func does when it is called: it returns a value, raises an Exception,
\* or raises a BaseException that is no Exception
Callables ==
    {Callable(o, v, n) :
        o \in {"returns"}, v \in {"success", ""}, n \in BOOLEAN}
    \cup {Callable(o, v, n) :
        o \in {"raises"}, v \in {"ValueError", "ConnectionError"}, n \in BOOLEAN}
    \cup {Callable(o, v, n) :
        o \in {"raises_base"}, v \in {"KeyboardInterrupt"}, n \in BOOLEAN}

\* the `context` argument: None, an empty list, or a list of names
Contexts == {None, Some(<<>>), Some(<<"manifest_loading">>)}

Defaults == {"handled", "failed"}

SafeReturned(v) == [kind |-> "return", value |-> v]

\* `context or [func.__name__]`: the expression raises AttributeError when it
\* reaches func.__name__ and func has none
ContextOrName(func, context) ==
    IF context # None /\ context[1] # <<>> THEN SafeReturned("context")
    ELSE IF func.named THEN SafeReturned("name")
    ELSE Raised("AttributeError")

\* safe_execute: the result, and whether handle_exception recorded an error
safe_execute(func, context, default_return) ==
    IF func.outcome = "returns"
    THEN [result |-> SafeReturned(func.value), handled |-> FALSE]
    ELSE IF func.outcome = "raises_base"
    THEN [result |-> Raised(func.value), handled |-> FALSE]
    ELSE IF ContextOrName(func, context).kind = "raise"
    THEN [result |-> ContextOrName(func, context), handled |-> FALSE]
    ELSE [result |-> SafeReturned(default_return), handled |-> TRUE]

notSafe == <<programVars, logVars, pkceVars, storeVars>>

\* safe_execute is called and ends
SafeExecute ==
    /\ sePc = "idle"
    /\ seCalls < MaxSafeCalls
    /\ \E func \in Callables : \E context \in Contexts : \E d \in Defaults :
        LET r == safe_execute(func, context, d)
        IN  /\ seCall' = [func |-> func, context |-> context, default_return |-> d]
            /\ seResult' = r.result
            /\ error_history' = error_history + (IF r.handled THEN 1 ELSE 0)
    /\ sePc' = "done"
    /\ seCalls' = seCalls + 1
    /\ UNCHANGED notSafe

\* the caller goes on
SafeExecuteReturn ==
    /\ sePc = "done"
    /\ sePc' = "idle"
    /\ seCall' = NoCall
    /\ seResult' = NoOutcome
    /\ UNCHANGED <<error_history, seCalls>>
    /\ UNCHANGED notSafe

SafeInit ==
    /\ LifecycleIdle
    /\ clock = 0
    /\ ReceiverIdle
    /\ FlaskIdle
    /\ FetchIdle
    /\ GateIdle
    /\ BoundaryIdle
    /\ UtilityIdle

SafeNext ==
    \/ SafeExecute
    \/ SafeExecuteReturn

SpecSafe == SafeInit /\ [][SafeNext]_vars

\* C34: a safe_execute call whose func completes returns func's result, and
\* one whose func raises an Exception returns default_return: no exception
\* leaves safe_execute in either case.
C34_SafeExecuteNeverPropagates ==
    sePc = "done" =>
        /\ seCall.func.outcome = "returns" =>
                seResult = SafeReturned(seCall.func.value)
        /\ seCall.func.outcome = "raises" =>
                seResult = SafeReturned(seCall.default_return)

\* ======================= api/oauth.py: the PKCE utilities =======================
\* A byte string is a sequence of numbers 0..255, a str a sequence of
\* one-character strings.  hashlib.sha256 is a function from byte strings to
\* 32-byte strings: `digests` holds its values on the inputs hashed so far,
\* each chosen once among DigestSamples.

MaxAuthCalls == 2
MaxHashCalls == 1

TokenBytesLength == 32
Sha256DigestSize == 32

\* the URL-safe base64 alphabet: the value 62 is "-", the value 63 is "_"
UrlSafeAlphabet ==
    <<"A", "B", "C", "D", "E", "F", "G", "H", "I", "J", "K", "L", "M",
      "N", "O", "P", "Q", "R", "S", "T", "U", "V", "W", "X", "Y", "Z",
      "a", "b", "c", "d", "e", "f", "g", "h", "i", "j", "k", "l", "m",
      "n", "o", "p", "q", "r", "s", "t", "u", "v", "w", "x", "y", "z",
      "0", "1", "2", "3", "4", "5", "6", "7", "8", "9", "-", "_">>

B64Char(v) == UrlSafeAlphabet[v + 1]

\* the four 6-bit values of three bytes
Sextets(b1, b2, b3) ==
    LET n == b1 * 65536 + b2 * 256 + b3
    IN  <<n \div 262144, (n \div 4096) % 64, (n \div 64) % 64, n % 64>>

RECURSIVE urlsafe_b64encode(_)
\* base64.urlsafe_b64encode(data).decode("utf-8"): four characters for every
\* three bytes, the last group filled with "="
urlsafe_b64encode(data) ==
    IF data = <<>> THEN <<>>
    ELSE IF Len(data) = 1
    THEN LET s == Sextets(data[1], 0, 0)
         IN  <<B64Char(s[1]), B64Char(s[2]), "=", "=">>
    ELSE IF Len(data) = 2
    THEN LET s == Sextets(data[1], data[2], 0)
         IN  <<B64Char(s[1]), B64Char(s[2]), B64Char(s[3]), "=">>
    ELSE LET s == Sextets(data[1], data[2], data[3])
         IN  <<B64Char(s[1]), B64Char(s[2]), B64Char(s[3]), B64Char(s[4])>>
             \o urlsafe_b64encode(SubSeq(data, 4, Len(data)))

RECURSIVE rstrip(_, _)
\* str.rstrip(c)
rstrip(s, c) ==
    IF s # <<>> /\ s[Len(s)] = c THEN rstrip(SubSeq(s, 1, Len(s) - 1), c) ELSE s

Repeat(pattern, n) == [i \in 1..n |-> pattern[((i - 1) % Len(pattern)) + 1]]

BytePatterns == {<<0, 0, 0>>, <<255, 255, 255>>, <<251, 255, 62>>, <<105, 183, 29>>}

\* what secrets.token_bytes(32) may return
TokenBytes == {Repeat(p, TokenBytesLength) : p \in BytePatterns}

\* what a SHA-256 digest may be
DigestSamples == {Repeat(p, Sha256DigestSize) : p \in {<<0, 0, 0>>, <<251, 255, 62>>}}

generate_code_verifier_padded(random) == urlsafe_b64encode(random)

\* generate_code_verifier, secrets.token_bytes(32) having returned `random`
generate_code_verifier(random) == rstrip(urlsafe_b64encode(random), "=")

\* hashlib.sha256(data).digest()
sha256(table, data) == table[data]

\* sha256 with one more value known
Hashed(table, data, digest) == Put(table, data, digest)

generate_code_challenge_counting(table, verifier) ==
    IF hashCalls = 0 THEN rstrip(urlsafe_b64encode(sha256(table, verifier)), "=")
    ELSE <<"A">> \o Tail(rstrip(urlsafe_b64encode(sha256(table, verifier)), "="))

\* generate_code_challenge
generate_code_challenge(table, verifier) ==
    rstrip(urlsafe_b64encode(sha256(table, verifier)), "=")

Verifiers == {generate_code_verifier(random) : random \in TokenBytes}

\* ---- authorize()

\* the token endpoint's 200 answers to the code exchange
ExchangeBodies == {body \in Bodies : body.expires_in = 11}

\* auth_params
AuthParams(challenge) ==
    [code_challenge |-> challenge, client_id |-> RestEnv.BUNGIE_CLIENT_ID,
     response_type |-> "code", redirect_uri |-> "http://localhost:7777/callback",
     code_challenge_method |-> "S256"]

TokenDataWithChallenge(code, verifier, challenge) ==
    [code_verifier |-> challenge, code |-> code, client_id |-> RestEnv.BUNGIE_CLIENT_ID,
     redirect_uri |-> "http://localhost:7777/callback",
     grant_type |-> "authorization_code"]

\* token_data
TokenData(code, verifier, challenge) ==
    [code_verifier |-> verifier, code |-> code, client_id |-> RestEnv.BUNGIE_CLIENT_ID,
     redirect_uri |-> "http://localhost:7777/callback",
     grant_type |-> "authorization_code"]

\* the outputs seen for each verifier, one more seen
Observed(seen, verifier, challenge) ==
    Put(seen, verifier,
        (IF HasKey(seen, verifier) THEN seen[verifier] ELSE {}) \cup {challenge})

notPkce == <<env, callVars, clock, receiverVars, flaskVars, fetchVars, gateVars,
             boundaryVars, logVars, safeVars, storeVars>>

\* authorize is called: the pair is generated and the browser is opened on
\* the authorization URL
Authorize ==
    /\ apc = "idle"
    /\ aCalls < MaxAuthCalls
    /\ \E random \in TokenBytes : \E digest \in DigestSamples :
        LET verifier == generate_code_verifier(random)
            table == Hashed(digests, verifier, digest)
            challenge == generate_code_challenge(table, verifier)
        IN  /\ HasKey(digests, verifier) => digest = digests[verifier]
            /\ digests' = table
            /\ challenges' = Observed(challenges, verifier, challenge)
            /\ aDrawn' = Some(random)
            /\ code_verifier' = Some(verifier)
            /\ code_challenge' = Some(challenge)
            /\ aUrl' = Some(AuthParams(challenge))
    /\ aPosted' = None
    /\ aCode' = None
    /\ aResult' = NoOutcome
    /\ aCalls' = aCalls + 1
    /\ apc' = "waiting"
    /\ UNCHANGED <<sessionFile, hashCalls>>
    /\ UNCHANGED notPkce

\* wait_for_code returns a code: token_data is posted to the token endpoint
AuthorizeWaitCode ==
    /\ apc = "waiting"
    /\ \E code \in AuthCodes :
        /\ aCode' = Some(code)
        /\ aPosted' = Some(TokenData(code, code_verifier[1], code_challenge[1]))
    /\ apc' = "exchange"
    /\ UNCHANGED <<sessionFile, code_verifier, code_challenge, aResult, aDrawn, aUrl,
                   digests, challenges, aCalls, hashCalls>>
    /\ UNCHANGED notPkce

\* wait_for_code raises TimeoutError or ValueError: authorize raises
AuthorizeWaitFails ==
    /\ apc = "waiting"
    /\ \E cause \in {"timeout", "provider_error"} : aResult' = Raised(cause)
    /\ apc' = "done"
    /\ UNCHANGED <<sessionFile, code_verifier, code_challenge, aCode, aDrawn, aUrl,
                   aPosted, digests, challenges, aCalls, hashCalls>>
    /\ UNCHANGED notPkce

\* the token endpoint answers 200: the session is saved and returned
AuthorizeExchangeOk ==
    /\ apc = "exchange"
    /\ \E body \in ExchangeBodies :
        /\ sessionFile' = Some(TokenResponse(body, now))
        /\ aResult' = Returned(body.access_token)
    /\ apc' = "done"
    /\ UNCHANGED <<code_verifier, code_challenge, aCode, aDrawn, aUrl, aPosted,
                   digests, challenges, aCalls, hashCalls>>
    /\ UNCHANGED notPkce

\* the token endpoint answers another status, or the request fails
AuthorizeExchangeFails ==
    /\ apc = "exchange"
    /\ \E cause \in {"exchange_http", "exchange_network"} : aResult' = Raised(cause)
    /\ apc' = "done"
    /\ UNCHANGED <<sessionFile, code_verifier, code_challenge, aCode, aDrawn, aUrl,
                   aPosted, digests, challenges, aCalls, hashCalls>>
    /\ UNCHANGED notPkce

\* authorize has ended: its locals are gone
AuthorizeReturn ==
    /\ apc = "done"
    /\ apc' = "idle"
    /\ code_verifier' = None
    /\ code_challenge' = None
    /\ aCode' = None
    /\ UNCHANGED <<sessionFile, aResult, aDrawn, aUrl, aPosted, digests, challenges,
                   aCalls, hashCalls>>
    /\ UNCHANGED notPkce

\* generate_code_challenge is called on its own with some verifier
GenerateCodeChallenge ==
    /\ hashCalls < MaxHashCalls
    /\ \E verifier \in Verifiers : \E digest \in DigestSamples :
        LET table == Hashed(digests, verifier, digest)
        IN  /\ HasKey(digests, verifier) => digest = digests[verifier]
            /\ digests' = table
            /\ challenges' = Observed(challenges, verifier,
                                      generate_code_challenge(table, verifier))
    /\ hashCalls' = hashCalls + 1
    /\ UNCHANGED <<sessionFile, apc, code_verifier, code_challenge, aCode, aResult,
                   aDrawn, aUrl, aPosted, aCalls>>
    /\ UNCHANGED notPkce

PkceInit ==
    /\ LifecycleIdle
    /\ clock = 0
    /\ ReceiverIdle
    /\ FlaskIdle
    /\ FetchIdle
    /\ GateIdle
    /\ BoundaryIdle
    /\ UtilityIdle

PkceNext ==
    \/ Authorize
    \/ AuthorizeWaitCode
    \/ AuthorizeWaitFails
    \/ AuthorizeExchangeOk
    \/ AuthorizeExchangeFails
    \/ AuthorizeReturn
    \/ GenerateCodeChallenge

SpecPkce == PkceInit /\ [][PkceNext]_vars

UrlSafeChars == {UrlSafeAlphabet[i] : i \in 1..Len(UrlSafeAlphabet)}

\* a str of URL-safe base64 characters only
UrlSafe(s) == \A i \in 1..Len(s) : s[i] \in UrlSafeChars /\ s[i] # "="

\* C31: the verifier generate_code_verifier made from the bytes drawn in an
\* authorize call has between 43 and 128 characters, all of them letters,
\* digits, "-" or "_", and none of them "=".
C31_VerifierWellFormed ==
    code_verifier # None =>
        /\ code_verifier[1] = generate_code_verifier(aDrawn[1])
        /\ Len(code_verifier[1]) >= 43
        /\ Len(code_verifier[1]) <= 128
        /\ UrlSafe(code_verifier[1])

\* a verifier of 43 characters in which both "-" and "_" occur
C31_Witness ==
    /\ code_verifier # None
    /\ aDrawn = Some(Repeat(<<251, 255, 62>>, TokenBytesLength))
    /\ Len(code_verifier[1]) = 43
    /\ \E i, j \in 1..43 : code_verifier[1][i] = "-" /\ code_verifier[1][j] = "_"

SessionFields == {"access_token", "refresh_token", "expires_in", "expires_at"}

\* C37: in every authorize call the code_verifier posted to the token endpoint
\* is the one made from the bytes drawn in that call, and the code_challenge
\* in the authorization URL of the call is the challenge of that verifier; and
\* the session file holds the token response's fields and expires_at only,
\* never a code_verifier.
C37_PkcePairScopedToCall ==
    /\ apc # "idle" =>
        /\ code_verifier = Some(generate_code_verifier(aDrawn[1]))
        /\ aUrl[1].code_challenge = generate_code_challenge(digests, code_verifier[1])
        /\ aUrl[1].code_challenge_method = "S256"
    /\ aPosted # None =>
        /\ aPosted[1].code_verifier = generate_code_verifier(aDrawn[1])
        /\ generate_code_challenge(digests, aPosted[1].code_verifier)
                = aUrl[1].code_challenge
    /\ sessionFile # NoFile =>
        /\ ~HasKey(sessionFile[1], "code_verifier")
        /\ DOMAIN sessionFile[1] = SessionFields

\* a second authorize call, with another pair than the first, has exchanged
\* its code and saved the session
C37_Witness ==
    /\ aCalls = 2 /\ hashCalls = 0 /\ apc = "done"
    /\ Cardinality(DOMAIN digests) = 2
    /\ aPosted # None /\ aResult.kind = "token"
    /\ sessionFile # NoFile

\* ======================= api/oauth.py: the session store =======================
\* A session is a dict of str keys; its values are Python str, int and float
\* objects.  The file's text is the sequence of its top-level JSON values (one
\* in a file json.dump wrote), a JSON object being its members in the order
\* json.dump writes them, each with the lexeme of its value.

MaxStoreOps == 5

PyStr(s) == [type |-> "str", text |-> s, number |-> 0]
PyInt(n) == [type |-> "int", text |-> "", number |-> n]
\* a float, in tenths
PyFloat(x) == [type |-> "float", text |-> "", number |-> x]

\* the sessions handed to save_session: the two of tests/test_oauth_pkce.py, a
\* token response as authorize stamps it, and one whose expires_at is an int
StoreSessions ==
    {[access_token |-> PyStr("test_token_123"), refresh_token |-> PyStr("refresh_123"),
      expires_at |-> PyFloat(Epoch + Tenths(SaveTokenExpiresIn))],
     [access_token |-> PyStr("expired_token"), expires_at |-> PyFloat(Epoch - 1000)],
     [access_token |-> PyStr("A1"), refresh_token |-> PyStr("R1"),
      expires_in |-> PyInt(SaveTokenExpiresIn), expires_at |-> PyFloat(Epoch + 35900),
      membership_id |-> PyStr("4611686018")],
     [access_token |-> PyStr("A2"), refresh_token |-> PyStr(""),
      expires_at |-> PyInt(Epoch)]}

\* the order in which the keys of the sessions above are inserted
KeyOrder == <<"access_token", "refresh_token", "expires_in", "expires_at", "membership_id">>

\* a str is written between quotes; an int as its digits; a float as repr
\* writes it, with a "." in it
Lexeme(v) ==
    IF v.type = "str" THEN [quoted |-> TRUE, chars |-> v.text, digits |-> 0, point |-> FALSE]
    ELSE [quoted |-> FALSE, chars |-> "", digits |-> v.number, point |-> (v.type = "float")]

\* the value a lexeme is parsed to
Parsed(lexeme) ==
    IF lexeme.quoted THEN PyStr(lexeme.chars)
    ELSE IF lexeme.point THEN PyFloat(lexeme.digits)
    ELSE PyInt(lexeme.digits)

RECURSIVE MembersFrom(_, _)
MembersFrom(data, i) ==
    IF i > Len(KeyOrder) THEN <<>>
    ELSE (IF HasKey(data, KeyOrder[i])
          THEN <<[lexeme |-> Lexeme(data[KeyOrder[i]]), key |-> KeyOrder[i]]>>
          ELSE <<>>) \o MembersFrom(data, i + 1)

\* json.dump(data, f, indent=2): the text written
json_dump(data) == MembersFrom(data, 1)

\* json.loads of one JSON object: a later member of a name replaces an earlier
json_loads(members) ==
    [k \in {members[i].key : i \in 1..Len(members)} |->
        LET last == CHOOSE i \in 1..Len(members) :
                        /\ members[i].key = k
                        /\ \A j \in (i + 1)..Len(members) : members[j].key # k
        IN  Parsed(members[last].lexeme)]

WrittenAppending(old, text) == old \o <<text>>

\* open(SESSION_PATH, "w") and the write: the file's text afterwards
Written(old, text) == <<text>>

Loaded(data) == [kind |-> "session", loaded |-> data]
LoadedNothing == [kind |-> "none", loaded |-> EmptyDict]
LoadRaised == [kind |-> "raise", loaded |-> EmptyDict]

\* load_session on the text of the file: json.load raises JSONDecodeError
\* unless the text is exactly one JSON value
LoadSessionResult(file) ==
    IF file = NoFile THEN LoadedNothing
    ELSE IF Len(file[1]) # 1 THEN LoadRaised
    ELSE Loaded(json_loads(file[1][1]))

notStore == <<programVars, logVars, safeVars, pkceVars>>

\* save_session(data)
SaveSession ==
    /\ ssOps < MaxStoreOps
    /\ \E data \in StoreSessions :
        /\ sessionText' = Some(Written(IF sessionText = NoFile THEN <<>> ELSE sessionText[1],
                                       json_dump(data)))
        /\ ssSaved' = Some(data)
    /\ ssLoaded' = NotLoaded
    /\ ssSaves' = ssSaves + 1
    /\ ssOps' = ssOps + 1
    /\ UNCHANGED notStore

\* load_session()
LoadSession ==
    /\ ssOps < MaxStoreOps
    /\ ssLoaded' = LoadSessionResult(sessionText)
    /\ ssOps' = ssOps + 1
    /\ UNCHANGED <<sessionText, ssSaved, ssSaves>>
    /\ UNCHANGED notStore

\* the session file when the process starts: absent, written by an earlier
\* run, or empty
StoreInit ==
    /\ LifecycleIdle
    /\ clock = 0
    /\ ReceiverIdle
    /\ FlaskIdle
    /\ FetchIdle
    /\ GateIdle
    /\ BoundaryIdle
    /\ LogIdle /\ SafeIdle /\ PkceIdle
    /\ sessionText \in {NoFile, Some(<<>>)} \cup {Some(<<json_dump(s)>>) : s \in StoreSessions}
    /\ StoreCallIdle

StoreNext ==
    \/ SaveSession
    \/ LoadSession

SpecStore == StoreInit /\ [][StoreNext]_vars

\* C33: load_session after save_session(S) returns S: the same keys, each with
\* the value it had (access_token, refresh_token, expires_at and any other),
\* whatever the file held before the save, an earlier session included.
C33_SessionRoundTrip ==
    (ssSaved # None /\ ssLoaded # NotLoaded) => ssLoaded = Loaded(ssSaved[1])

\* after a session with a refresh_token, one without was saved and loaded: the
\* loaded session has no refresh_token
C33_Witness ==
    /\ ssSaves = 2
    /\ ssLoaded.kind = "session"
    /\ ssLoaded.loaded.access_token = PyStr("expired_token")
    /\ ssLoaded.loaded.expires_at.type = "float"
    /\ ~HasKey(ssLoaded.loaded, "refresh_token")

=============================================================================
